---- MODULE Spec2Model ----
(***************************************************************************)
(* AutoResSwitcher (src/main.py): the display-mode control protocol        *)
(* (set_resolution), the watcher thread (_watch_loop), the UI thread's     *)
(* handlers that touch the profile store or the display                    *)
(* (save_selected_game, add_game_manually, rescan_games,                   *)
(* choose_image_for_selected_game, test_resolution_7s, on_close), the      *)
(* rescan worker's merge (_merge_discovered_games_into_config), the        *)
(* loading and saving of config.json (load_config, save_config) and the    *)
(* game discovery (discover_all_games, its five scanners and               *)
(* _pick_exe_in_folder).                                                   *)
(*                                                                         *)
(* Threads interleave between the steps below.  CPython runs one bytecode  *)
(* at a time, so single dict reads and writes are atomic; what the model   *)
(* keeps apart are the steps between which another thread can change the   *)
(* shared store or the display.                                            *)
(***************************************************************************)
EXTENDS Integers, Sequences, FiniteSets, TLC

----------------------------------------------------------------------------
(* Bounds of the model                                                     *)

\* watcher ticks per behaviour of the logged specification
MaxTicks == 3
\* save_selected_game calls per behaviour
MaxEdits == 1
\* rescans started per behaviour
MaxRescans == 1
\* manual additions per behaviour
MaxManual == 1
\* test_resolution_7s calls per behaviour
MaxPreviews == 2
\* the candidates at which a scanner and discover_all_games stop:
\* DISCOVERY_SCAN_LIMIT, which is 500 in the source
ScanLimit == 2

----------------------------------------------------------------------------
(* Program constants                                                       *)

DEFAULT_WIDTH == 1920
DEFAULT_HEIGHT == 1080
DISP_CHANGE_SUCCESSFUL == 0
\* refresh rate given to every profile the merge or a manual add inserts
INSERT_REFRESH_HZ == 144
CS2_PRESET_WIDTH == 1440
VALORANT_PRESET_WIDTH == 1568

\* Python's None
None == "None"
\* a key a profile dict does not hold (dict.get then yields its default):
\* Missing for the text fields, NoInt for width, height and refresh_hz
Missing == "Missing"
NoInt == 0 - 1
\* refresh_hz=None of set_resolution: an optional rate is a set of at most
\* one rate
NoRate == {}

----------------------------------------------------------------------------
(* Names                                                                   *)

\* image names Windows may report as running, in the case tasklist prints
ImageNames == {"cs2.exe", "VALORANT-Win64-Shipping.exe", "explorer.exe"}

\* str.lower() on the names of the model
Lower(s) ==
  CASE s = "VALORANT-Win64-Shipping.exe" -> "valorant-win64-shipping.exe"
    [] s = "My Game.exe" -> "my game.exe"
    [] s = "Tool.exe" -> "tool.exe"
    [] s = "CS2.exe" -> "cs2.exe"
    [] s = "VALORANT.exe" -> "valorant.exe"
    [] s = "Ubisoft" -> "ubisoft"
    [] s = "Connect" -> "connect"
    [] s = "Battle.net" -> "battle.net"
    [] s = "Blizzard" -> "blizzard"
    [] s = "Riot" -> "riot"
    [] s = "VALORANT" -> "valorant"
    [] s = "Tracker" -> "tracker"
    [] s = "Overwolf" -> "overwolf"
    [] s = "Zip" -> "zip"
    [] s = ".EXE" -> ".exe"
    [] s = "GAME" -> "game"
    [] OTHER -> s

\* re.sub(r"[^a-zA-Z0-9._-]+", "_", name.strip()) or "game"
\* (the only character of the model's names outside the class is the blank)
_safe_filename(name) ==
  CASE name = "my game.exe" -> "my_game.exe"
    [] name = "" -> "game"
    [] OTHER -> name

\* os.path.join(IMAGES_DIR, f"{_safe_filename(proc_key)}.png")
ImagePathFor(proc_key) == <<"images", _safe_filename(proc_key), ".png">>

----------------------------------------------------------------------------
(* Configuration                                                           *)

\* default_config()["games"], as the dict and its insertion order
DefaultGames ==
  [k \in {"cs2.exe", "valorant-win64-shipping.exe"} |->
     IF k = "cs2.exe"
     THEN [name |-> "Counter-Strike 2", process |-> "cs2.exe",
           width |-> 1440, height |-> 1080, refresh_hz |-> 144,
           image_path |-> <<"images", "cs2", ".png">>,
           exe_path |-> None, source |-> "preset"]
     ELSE [name |-> "Valorant", process |-> "VALORANT-Win64-Shipping.exe",
           width |-> 1568, height |-> 1080, refresh_hz |-> 144,
           image_path |-> <<"images", "valorant", ".png">>,
           exe_path |-> None, source |-> "preset"]]

DefaultOrder == <<"cs2.exe", "valorant-win64-shipping.exe">>

\* g.get(field, default) on a profile dict, text and integer fields
Get(g, field, default) == IF g[field] = Missing THEN default ELSE g[field]

GetInt(g, field, default) == IF g[field] = NoInt THEN default ELSE g[field]

\* Python truthiness of a stored exe_path / source value
Truthy(v) == v # None /\ v # Missing /\ v # ""

----------------------------------------------------------------------------
(* Windows display API, as set_resolution uses it                          *)

\* what the driver does during one set_resolution call: whether
\* EnumDisplaySettingsW succeeds, and the status codes of the CDS_TEST and
\* CDS_UPDATEREGISTRY calls of ChangeDisplaySettingsW
DriverOutcomes ==
  [query : BOOLEAN, test : {0, 0 - 2}, apply : {0, 0 - 1}]

\* a request whose frequency moves when no rate is forced
RequestedModeDrifting(cur, width, height, refresh_hz) ==
  [width |-> width, height |-> height,
   freq |-> IF refresh_hz # {} /\ (\E r \in refresh_hz : r > 0)
            THEN CHOOSE r \in refresh_hz : TRUE
            ELSE cur.freq + 1]

\* the DEVMODE set_resolution requests: width and height always, the
\* frequency only with DM_DISPLAYFREQUENCY in dmFields
RequestedMode(cur, width, height, refresh_hz) ==
  [width |-> width, height |-> height,
   freq |-> IF refresh_hz # NoRate /\ (\E r \in refresh_hz : r > 0)
            THEN CHOOSE r \in refresh_hz : TRUE
            ELSE cur.freq]

\* a set_resolution that skips the status of the CDS_TEST call
set_resolution_untested(cur, width, height, refresh_hz, o) ==
  IF ~o.query
  THEN [raised |-> TRUE, ok |-> FALSE, msg |-> <<"OSError", 0>>,
        native |-> <<"query">>, mode |-> cur]
  ELSE IF o.apply # 0
  THEN [raised |-> FALSE, ok |-> FALSE, msg |-> <<"nicht setzen", o.apply>>,
        native |-> <<"query", "test", "apply">>, mode |-> cur]
  ELSE [raised |-> FALSE, ok |-> TRUE, msg |-> <<"OK", 0>>,
        native |-> <<"query", "test", "apply">>,
        mode |-> [width |-> width, height |-> height,
                  freq |-> IF refresh_hz = {} THEN cur.freq
                           ELSE CHOOSE r \in refresh_hz : TRUE]]

\* set_resolution(width, height, refresh_hz) under driver outcome o, from
\* display mode cur: whether it raised, what it returned, the native calls
\* it made, the display mode afterwards
set_resolution(cur, width, height, refresh_hz, o) ==
  LET dm == RequestedMode(cur, width, height, refresh_hz) IN
  IF ~o.query
  THEN [raised |-> TRUE, ok |-> FALSE, msg |-> <<"OSError", 0>>,
        native |-> <<"query">>, mode |-> cur]
  ELSE IF o.test # DISP_CHANGE_SUCCESSFUL
  THEN [raised |-> FALSE, ok |-> FALSE, msg |-> <<"nicht testen", o.test>>,
        native |-> <<"query", "test">>, mode |-> cur]
  ELSE IF o.apply # DISP_CHANGE_SUCCESSFUL
  THEN [raised |-> FALSE, ok |-> FALSE, msg |-> <<"nicht setzen", o.apply>>,
        native |-> <<"query", "test", "apply">>, mode |-> cur]
  ELSE [raised |-> FALSE, ok |-> TRUE, msg |-> <<"OK", 0>>,
        native |-> <<"query", "test", "apply">>, mode |-> dm]

\* a rate argument that is never None
RateArgAlways(r) == {r}

\* r if r > 0 else None
RateArg(r) == IF r > 0 THEN {r} ELSE NoRate

\* list_running_process_names_lower(): the lowercased image names, or the
\* empty set when running tasklist fails
list_running_process_names_lower(actual, fails) ==
  IF fails THEN {} ELSE {Lower(n) : n \in actual}

----------------------------------------------------------------------------
(* Discovery merge, on values                                              *)

\* candidates discover_all_games can return (already unique by process)
CandCs2 ==
  [name |-> "Counter-Strike 2", exe_path |-> "C:/Steam/cs2.exe",
   process |-> "cs2.exe", source |-> "steam"]

CandMyGame ==
  [name |-> "My Game", exe_path |-> "D:/Games/My Game.exe",
   process |-> "My Game.exe", source |-> "epic"]

\* what a discovery run can return at startup and on a rescan
DiscoveryResults == {<<>>, <<CandCs2>>, <<CandCs2, CandMyGame>>}

\* (g.get("process") or "").lower()
CandKey(g) == Lower(g.process)

\* an inserted profile whose source is always "scan"
NewProfileScanSource(proc_key, g) ==
  [name |-> g.name, process |-> g.process, width |-> 1920, height |-> 1080,
   refresh_hz |-> 144,
   image_path |-> <<"images", _safe_filename(proc_key), ".png">>,
   exe_path |-> g.exe_path, source |-> "scan"]

\* the profile lines 1102-1111 insert for candidate g under proc_key
NewProfile(proc_key, g) ==
  [name |-> IF g.name # "" THEN g.name ELSE proc_key,
   process |-> IF g.process # "" THEN g.process ELSE proc_key,
   width |-> DEFAULT_WIDTH, height |-> DEFAULT_HEIGHT,
   refresh_hz |-> INSERT_REFRESH_HZ,
   image_path |-> ImagePathFor(proc_key),
   exe_path |-> g.exe_path,
   source |-> IF g.source # "" THEN g.source ELSE "scan"]

\* an assignment that replaces the dict by one holding the new key alone
DictSetAlone(gs, ord, k, v) ==
  [games |-> (k :> v), order |-> <<k>>]

\* games[proc_key] = {...}: a new key goes last in the dict's order, an
\* existing key keeps its place
DictSet(gs, ord, k, v) ==
  [games |-> (k :> v) @@ gs,
   order |-> IF k \in DOMAIN gs THEN ord ELSE Append(ord, k)]

\* a back-fill that takes the candidate's source whatever the profile holds
BackfillOverwriting(p, g) ==
  [p EXCEPT !.exe_path = IF ~Truthy(@) /\ Truthy(g.exe_path)
                         THEN g.exe_path ELSE @,
            !.source = g.source]

\* lines 1096-1099: fill exe_path and source of an existing profile, each
\* only when it is empty
Backfill(p, g) ==
  LET p1 == IF ~Truthy(p.exe_path) /\ Truthy(g.exe_path)
            THEN [p EXCEPT !.exe_path = g.exe_path] ELSE p
  IN IF ~Truthy(p1.source) /\ Truthy(g.source)
     THEN [p1 EXCEPT !.source = g.source] ELSE p1

\* one pass of the for loop of _merge_discovered_games_into_config
MergeOne(st, g) ==
  LET k == CandKey(g) IN
  IF k = "" THEN st
  ELSE IF k \in DOMAIN st.games
  THEN [st EXCEPT !.games = [st.games EXCEPT ![k] = Backfill(st.games[k], g)]]
  ELSE LET d == DictSet(st.games, st.order, k, NewProfile(k, g))
       IN [games |-> d.games, order |-> d.order, added |-> st.added + 1]

RECURSIVE MergeAll(_, _)
MergeAll(st, discovered) ==
  IF discovered = <<>> THEN st
  ELSE MergeAll(MergeOne(st, Head(discovered)), Tail(discovered))

\* lines 1117 and 1122: the preset's resolution is still the default pair
\* (or not set)
StillDefault(p) ==
  /\ p.width \in {NoInt, DEFAULT_WIDTH}
  /\ p.height \in {NoInt, DEFAULT_HEIGHT}

\* the two presets lines 1115-1124 enforce, in that order
Presets ==
  <<[key |-> "cs2.exe", name |-> "Counter-Strike 2",
     width |-> CS2_PRESET_WIDTH],
    [key |-> "valorant-win64-shipping.exe", name |-> "Valorant",
     width |-> VALORANT_PRESET_WIDTH]>>

\* games[k].setdefault("name", ...)
SetDefaultName(p, presetName) ==
  IF p.name = Missing THEN [p EXCEPT !.name = presetName] ELSE p

\* the two assignments that force a preset's resolution
ForceResolution(p, width) ==
  [p EXCEPT !.width = width, !.height = DEFAULT_HEIGHT]

\* one of the two if blocks of lines 1115-1124
EnforcePreset(gs, pr) ==
  IF pr.key \notin DOMAIN gs THEN gs
  ELSE LET p1 == SetDefaultName(gs[pr.key], pr.name)
       IN [gs EXCEPT ![pr.key] =
             IF StillDefault(p1) THEN ForceResolution(p1, pr.width) ELSE p1]

EnforcePresets(gs) == EnforcePreset(EnforcePreset(gs, Presets[1]), Presets[2])

\* _merge_discovered_games_into_config run alone (as App.__init__ runs it,
\* before any other thread exists)
MergeInto(gs, ord, discovered) ==
  LET st == MergeAll([games |-> gs, order |-> ord, added |-> 0], discovered)
  IN [st EXCEPT !.games = EnforcePresets(st.games)]

----------------------------------------------------------------------------
(* Text the user can type into the width, height and refresh fields        *)

\* int(str(s).strip()) on the texts of the model: the value, or no value
\* when int() raises ValueError
IntOfText(s) ==
  CASE s = "1920" -> {1920}
    [] s = " 900 " -> {900}
    [] s = "1080" -> {1080}
    [] s = "60" -> {60}
    [] s = "0" -> {0}
    [] s = "-1" -> {0 - 1}
    [] OTHER -> {}

\* self._parse_int(s, field): a value > 0, or ValueError (no value)
_parse_int(s) == {v \in IntOfText(s) : v > 0}

\* int(str(self.r_var.get()).strip() or "0"), ValueError when negative
ParseRefresh(s) == {v \in IntOfText(IF s = "" THEN "0" ELSE s) : v >= 0}

WidthTexts == {"1920", "abc"}
HeightTexts == {" 900 ", "1080", "0"}
RefreshTexts == {"", "60", "-1"}

\* os.path.splitext(proc)[0] of the names of the model
Stem(proc) ==
  CASE proc = "My Game.exe" -> "My Game"
    [] proc = "cs2.exe" -> "cs2"
    [] proc = "CS2.exe" -> "CS2"
    [] proc = "u.exe" -> "u"
    [] proc = "bn.exe" -> "bn"
    [] proc = "VALORANT.exe" -> "VALORANT"
    [] OTHER -> proc

\* os.path.basename of the paths of the model
Basename(path) ==
  CASE path = "D:/Games/My Game.exe" -> "My Game.exe"
    [] path = "C:/Steam/cs2.exe" -> "cs2.exe"
    [] path = "D:/Games/CS2.exe" -> "CS2.exe"
    [] path = "C:/Games/u.exe" -> "u.exe"
    [] path = "C:/BN/bn.exe" -> "bn.exe"
    [] path = "C:/Riot Games/VALORANT/VALORANT.exe" -> "VALORANT.exe"
    [] OTHER -> path

\* files the user can pick in add_game_manually ("" : dialog cancelled)
PickedPaths == {"D:/Games/My Game.exe", "C:/Steam/cs2.exe", "notes.txt", ""}

\* path.lower().endswith(".exe") and os.path.exists(path)
IsExePath(path) == path \in {"D:/Games/My Game.exe", "C:/Steam/cs2.exe"}

----------------------------------------------------------------------------
(* Game discovery                                                          *)

\* os.path.exists on the paths of the model
InstalledFiles ==
  {"C:/Steam/cs2.exe", "D:/Games/My Game.exe", "D:/Games/CS2.exe",
   "C:/Games/u.exe", "C:/BN/bn.exe", "C:/Riot Games/VALORANT/VALORANT.exe"}

\* A folder handed to _pick_exe_in_folder: its text in pieces (the last
\* piece is "/" when the text ends with a separator, no piece at all for
\* the empty string), whether it is a directory, and the directories
\* os.walk visits when none is pruned, top down, each with its path below
\* the folder and its files as listed; a file name is a stem and an
\* extension

\* f.lower().endswith(".exe")
EndsWithExe(f) == Lower(f[Len(f)]) = ".exe"

\* the first .exe of a listing, or 0
FirstExe(files) ==
  IF \E i \in 1..Len(files) : EndsWithExe(files[i])
  THEN CHOOSE i \in 1..Len(files) :
         /\ EndsWithExe(files[i])
         /\ \A j \in 1..(i - 1) : ~EndsWithExe(files[j])
  ELSE 0

\* line 391: root[len(folder):].count(os.sep) for the directory rel below
\* the folder; os.path.join puts no separator after a folder text that
\* ends with one
WalkDepth(text, rel) ==
  IF rel = <<>> THEN 0
  ELSE IF text[Len(text)] = "/" THEN Len(rel) - 1
  ELSE Len(rel)

\* directory c lies above directory rel
Above(c, rel) == Len(c) < Len(rel) /\ SubSeq(rel, 1, Len(c)) = c

\* lines 390-397: the walk; cut holds the directories whose dirs[:] was
\* emptied, below which os.walk does not descend
RECURSIVE WalkPick(_, _, _, _)
WalkPick(folder, depth_limit, i, cut) ==
  IF i > Len(folder.walk) THEN None
  ELSE LET d == folder.walk[i]
           e == FirstExe(d.files)
       IN IF \E c \in cut : Above(c, d.rel)
          THEN WalkPick(folder, depth_limit, i + 1, cut)
          ELSE IF WalkDepth(folder.text, d.rel) > depth_limit
          THEN WalkPick(folder, depth_limit, i + 1, cut \cup {d.rel})
          ELSE IF e # 0 THEN <<d.rel, d.files[e]>>
          ELSE WalkPick(folder, depth_limit, i + 1, cut)

\* _pick_exe_in_folder(folder, depth_limit): the directory and the name of
\* the executable it returns, or None
_pick_exe_in_folder(folder, depth_limit) ==
  IF folder.text = <<>> \/ ~folder.isdir THEN None
  ELSE LET here == folder.walk[1].files
           e == FirstExe(here)
       IN IF e # 0 THEN <<(<<>>), here[e]>>
          ELSE WalkPick(folder, depth_limit, 1, {})

\* the candidate dict every scanner builds for the executable exe; name is
\* None where the scanner has none and falls back to the file's stem
Candidate(name, exe, source) ==
  [name |-> IF name = None \/ name = ""
            THEN Stem(Basename(exe)) ELSE name,
   exe_path |-> exe, process |-> Basename(exe), source |-> source]

\* lines 475-496: the loop over the app manifests of the Steam libraries;
\* an app has the name of its manifest (or None) and the executable
\* _pick_exe_in_folder finds in its install directory (or None)
RECURSIVE SteamLoop(_, _, _)
SteamLoop(apps, i, found) ==
  IF i > Len(apps) THEN found
  ELSE IF apps[i].exe = None THEN SteamLoop(apps, i + 1, found)
  ELSE LET f == Append(found,
                       Candidate(apps[i].name, apps[i].exe, "steam"))
       IN IF Len(f) >= ScanLimit THEN f ELSE SteamLoop(apps, i + 1, f)

\* discover_steam_games(): nothing without a Steam root
discover_steam_games(steam) ==
  IF ~steam.root THEN <<>> ELSE SteamLoop(steam.apps, 1, <<>>)

\* lines 517-547: the loop over the *.item manifests; a manifest is
\* "unreadable" (json.load raises, the loop continues), an "array" (data
\* is a list: data.get raises AttributeError), an object whose DisplayName
\* is a "number" (.strip() raises AttributeError) or an "object" with a
\* name and the executable found for it (or None)
RECURSIVE EpicLoop(_, _, _)
EpicLoop(manifests, i, found) ==
  IF i > Len(manifests) THEN [raised |-> FALSE, found |-> found]
  ELSE IF manifests[i].kind = "unreadable"
  THEN EpicLoop(manifests, i + 1, found)
  ELSE IF manifests[i].kind \in {"array", "number"}
  THEN [raised |-> TRUE, found |-> found]
  ELSE IF manifests[i].exe = None THEN EpicLoop(manifests, i + 1, found)
  ELSE LET f == Append(found, Candidate(manifests[i].name,
                                         manifests[i].exe, "epic"))
       IN IF Len(f) >= ScanLimit
          THEN [raised |-> FALSE, found |-> f]
          ELSE EpicLoop(manifests, i + 1, f)

\* discover_epic_games(): nothing without the manifest directory
discover_epic_games(epic) ==
  IF ~epic.dir THEN [raised |-> FALSE, found |-> <<>>]
  ELSE EpicLoop(epic.manifests, 1, <<>>)

\* lines 569-585: the loop over the folders of C:\Riot Games, each with
\* the executable _pick_exe_in_folder finds in it (or None)
RECURSIVE RiotLoop(_, _, _)
RiotLoop(top, i, found) ==
  IF i > Len(top) THEN found
  ELSE IF top[i].exe = None THEN RiotLoop(top, i + 1, found)
  ELSE LET f == Append(found, Candidate(top[i].name, top[i].exe, "riot"))
       IN IF Len(f) >= ScanLimit THEN f ELSE RiotLoop(top, i + 1, f)

discover_riot_games(top) == RiotLoop(top, 1, <<>>)

\* Registry texts are sequences of pieces; a piece is a run of characters
\* the scanner never splits.  s.lower() lowers every piece
LowerAll(s) == [i \in 1..Len(s) |-> Lower(s[i])]

\* k in hay
Within(k, hay) ==
  \E i \in 1..(Len(hay) + 1 - Len(k)) : SubSeq(hay, i, i + Len(k) - 1) = k

\* s.strip(c) for a one-character piece c
StripPiece(s, c) ==
  LET keep == {i \in 1..Len(s) : s[i] # c}
  IN IF keep = {} THEN <<>>
     ELSE SubSeq(s, CHOOSE i \in keep : \A j \in keep : i <= j,
                    CHOOSE i \in keep : \A j \in keep : i >= j)

\* s[: s.lower().rfind(".exe") + 4]
UpToLastExe(s) ==
  SubSeq(s, 1, CHOOSE i \in 1..Len(s) :
                 /\ Lower(s[i]) = ".exe"
                 /\ \A j \in (i + 1)..Len(s) : Lower(s[j]) # ".exe")

\* the path string the pieces spell
Join(s) ==
  CASE s = <<"C:/Games/u", ".exe">> -> "C:/Games/u.exe"
    [] s = <<"C:/BN/bn", ".exe">> -> "C:/BN/bn.exe"
    [] s = <<"C:/Gone/old", ".exe">> -> "C:/Gone/old.exe"
    [] s = <<"D:/Games/CS2", ".exe">> -> "D:/Games/CS2.exe"
    [] OTHER -> ""

\* _looks_like_exe_path(s): the path, or None
_looks_like_exe_path(s) ==
  IF s = <<>> THEN None
  ELSE LET s1 == StripPiece(StripPiece(s, " "), "\"")
           s2 == IF /\ \E i \in 1..Len(s1) : s1[i] \in {",0", ",1"}
                    /\ Len(s1) >= 2
                    /\ Lower(s1[Len(s1) - 1]) = ".exe"
                    /\ s1[Len(s1)] = ",0"
                 THEN UpToLastExe(s1) ELSE s1
           s3 == IF \E i \in 1..Len(s2) : Lower(s2[i]) = ".exe"
                 THEN UpToLastExe(s2) ELSE s2
       IN IF /\ Len(s3) >= 1
             /\ Lower(s3[Len(s3)]) = ".exe"
             /\ Join(s3) \in InstalledFiles
          THEN Join(s3) ELSE None

\* line 598: the keywords of the filter
keywords ==
  <<(<<"ubisoft">>), <<"ubisoft", " ", "connect">>, <<"blizzard">>,
    <<"battle.net">>, <<"riot">>, <<"valorant">>>>

\* line 607: (name + " " + publisher).lower()
Hay(e) == LowerAll(e.name \o <<" ">> \o e.publisher)

\* lines 612-620: the executable of an entry; e.picked is what
\* _pick_exe_in_folder finds in its install location (or None)
EntryExe(e) ==
  LET icon == _looks_like_exe_path(e.display_icon)
      unin == _looks_like_exe_path(e.uninstall_string)
  IN IF icon # None THEN icon
     ELSE IF unin # None THEN unin
     ELSE e.picked

\* a classification that looks for riot first
EntrySourceRiotFirst(hay) ==
  IF Within(<<"riot">>, hay) THEN "riot"
  ELSE IF Within(<<"ubisoft">>, hay) THEN "ubisoft"
  ELSE IF Within(<<"battle.net">>, hay) \/ Within(<<"blizzard">>, hay)
  THEN "battlenet"
  ELSE "registry"

\* lines 625-631
EntrySource(hay) ==
  IF Within(<<"ubisoft">>, hay) THEN "ubisoft"
  ELSE IF Within(<<"battle.net">>, hay) \/ Within(<<"blizzard">>, hay)
  THEN "battlenet"
  ELSE IF Within(<<"riot">>, hay) THEN "riot"
  ELSE "registry"

\* the display name of an entry: e.name as one string
EntryName(e) ==
  CASE e.name = <<"Ubisoft", " ", "Connect">> -> "Ubisoft Connect"
    [] e.name = <<"Battle.net">> -> "Battle.net"
    [] e.name = <<"Riot", " ", "Client">> -> "Riot Client"
    [] e.name = <<"VALORANT", " ", "Tracker">> -> "VALORANT Tracker"
    [] e.name = <<"Anno">> -> "Anno"
    [] OTHER -> "7-Zip"

\* lines 604-641: the loop over the uninstall entries
RECURSIVE RegistryLoop(_, _, _)
RegistryLoop(entries, i, found) ==
  IF i > Len(entries) THEN found
  ELSE IF ~\E n \in 1..Len(keywords) : Within(keywords[n], Hay(entries[i]))
  THEN RegistryLoop(entries, i + 1, found)
  ELSE IF EntryExe(entries[i]) = None
  THEN RegistryLoop(entries, i + 1, found)
  ELSE LET f == Append(found,
                       [name |-> EntryName(entries[i]),
                        exe_path |-> EntryExe(entries[i]),
                        process |-> Basename(EntryExe(entries[i])),
                        source |-> EntrySource(Hay(entries[i]))])
       IN IF Len(f) >= ScanLimit THEN f
          ELSE RegistryLoop(entries, i + 1, f)

\* discover_from_uninstall_entries() on what _get_uninstall_entries returns
discover_from_uninstall_entries(entries) == RegistryLoop(entries, 1, <<>>)

\* lines 660-668: every .exe of one directory of the walk is appended
RECURSIVE FilesLoop(_, _, _)
FilesLoop(files, i, found) ==
  IF i > Len(files) THEN found
  ELSE FilesLoop(files, i + 1,
                 Append(found, Candidate(None, files[i], "custom")))

\* lines 655-670: os.walk(base), with the limit looked at after every
\* directory
RECURSIVE WalkLoop(_, _, _)
WalkLoop(dirs, j, found) ==
  IF j > Len(dirs) THEN [stop |-> FALSE, found |-> found]
  ELSE LET f == FilesLoop(dirs[j], 1, found)
       IN IF Len(f) >= ScanLimit THEN [stop |-> TRUE, found |-> f]
          ELSE WalkLoop(dirs, j + 1, f)

\* lines 651-673: the loop over the custom scan paths; a path is a
\* directory or not, and has the directories os.walk visits down to depth
\* 3, each with the paths of its .exe files
RECURSIVE CustomLoop(_, _, _)
CustomLoop(paths, i, found) ==
  IF i > Len(paths) THEN found
  ELSE IF ~paths[i].isdir THEN CustomLoop(paths, i + 1, found)
  ELSE LET r == WalkLoop(paths[i].walk, 1, found)
       IN IF r.stop THEN r.found ELSE CustomLoop(paths, i + 1, r.found)

discover_custom_paths(paths) == CustomLoop(paths, 1, <<>>)

\* a dedup that keeps on after the limit
RECURSIVE UniqLoopUnlimited(_, _, _, _)
UniqLoopUnlimited(found, i, uniq, seen) ==
  IF i > Len(found) THEN uniq
  ELSE LET proc == Lower(found[i].process)
       IN IF proc = "" \/ proc \in seen
          THEN UniqLoopUnlimited(found, i + 1, uniq, seen)
          ELSE UniqLoopUnlimited(found, i + 1, Append(uniq, found[i]),
                                 seen \cup {proc})

\* a dedup in which a later candidate replaces the one kept for its key
RECURSIVE UniqLoopLastWins(_, _, _, _)
UniqLoopLastWins(found, i, uniq, seen) ==
  IF i > Len(found) THEN uniq
  ELSE LET proc == Lower(found[i].process)
       IN IF proc = "" THEN UniqLoopLastWins(found, i + 1, uniq, seen)
          ELSE IF proc \in seen
          THEN UniqLoopLastWins(found, i + 1,
                 [n \in 1..Len(uniq) |->
                    IF Lower(uniq[n].process) = proc
                    THEN found[i] ELSE uniq[n]], seen)
          ELSE LET u == Append(uniq, found[i])
               IN IF Len(u) >= ScanLimit THEN u
                  ELSE UniqLoopLastWins(found, i + 1, u, seen \cup {proc})

\* lines 685-695 of discover_all_games: unique by process name
RECURSIVE UniqLoop(_, _, _, _)
UniqLoop(found, i, uniq, seen) ==
  IF i > Len(found) THEN uniq
  ELSE LET proc == Lower(found[i].process)
       IN IF proc = "" \/ proc \in seen
          THEN UniqLoop(found, i + 1, uniq, seen)
          ELSE LET u == Append(uniq, found[i])
               IN IF Len(u) >= ScanLimit THEN u
                  ELSE UniqLoop(found, i + 1, u, seen \cup {proc})

\* what the scanners can find: Steam
NoSteam == [root |-> FALSE, apps |-> <<>>]
SteamInstalls ==
  {NoSteam,
   [root |-> TRUE,
    apps |-> <<[name |-> "Counter-Strike 2", exe |-> "C:/Steam/cs2.exe"]>>],
   [root |-> TRUE,
    apps |-> <<[name |-> "Counter-Strike 2", exe |-> "C:/Steam/cs2.exe"],
               [name |-> "Removed", exe |-> None],
               [name |-> None, exe |-> "C:/Games/u.exe"],
               [name |-> "My Game", exe |-> "D:/Games/My Game.exe"]>>]}

\* the Epic manifest directory
NoEpic == [dir |-> FALSE, manifests |-> <<>>]
EpicInstalls ==
  {NoEpic,
   [dir |-> TRUE,
    manifests |-> <<[kind |-> "object", name |-> "My Game",
                     exe |-> "D:/Games/My Game.exe"]>>],
   [dir |-> TRUE,
    manifests |-> <<[kind |-> "unreadable", name |-> "", exe |-> None],
                    [kind |-> "object", name |-> "",
                     exe |-> "D:/Games/CS2.exe"],
                    [kind |-> "object", name |-> "Gone", exe |-> None]>>],
   [dir |-> TRUE,
    manifests |-> <<[kind |-> "object", name |-> "My Game",
                     exe |-> "D:/Games/My Game.exe"],
                    [kind |-> "array", name |-> "", exe |-> None]>>],
   [dir |-> TRUE,
    manifests |-> <<[kind |-> "number", name |-> "", exe |-> None]>>]}

\* the folders of C:\Riot Games
RiotInstalls ==
  {<<>>,
   <<[name |-> "Riot Client", exe |-> None],
     [name |-> "VALORANT",
      exe |-> "C:/Riot Games/VALORANT/VALORANT.exe"]>>}

\* uninstall entries of the registry
UbisoftConnect ==
  [name |-> <<"Ubisoft", " ", "Connect">>, publisher |-> <<>>,
   display_icon |-> <<"\"", "C:/Games/u", ".exe", ",0", "\"">>,
   uninstall_string |-> <<>>, picked |-> None]
BattleNet ==
  [name |-> <<"Battle.net">>, publisher |-> <<"Blizzard">>,
   display_icon |-> <<"C:/Gone/old", ".exe", ",0">>,
   uninstall_string |-> <<"\"", "C:/BN/bn", ".exe", "\"", " /uninstall">>,
   picked |-> None]
RiotByUbisoft ==
  [name |-> <<"Riot", " ", "Client">>, publisher |-> <<"Ubisoft">>,
   display_icon |-> <<"D:/Games/CS2", ".exe", ",1">>,
   uninstall_string |-> <<>>, picked |-> None]
RiotClient ==
  [name |-> <<"Riot", " ", "Client">>, publisher |-> <<>>,
   display_icon |-> <<" ", "C:/BN/bn", ".exe", " ">>,
   uninstall_string |-> <<>>, picked |-> None]
ValorantTracker ==
  [name |-> <<"VALORANT", " ", "Tracker">>, publisher |-> <<"Overwolf">>,
   display_icon |-> <<>>,
   uninstall_string |-> <<"C:/Games/u", ".exe">>, picked |-> None]
AnnoByUbisoft ==
  [name |-> <<"Anno">>, publisher |-> <<"Ubisoft">>,
   display_icon |-> <<>>, uninstall_string |-> <<"msiexec", " /x">>,
   picked |-> "D:/Games/My Game.exe"]
SevenZip ==
  [name |-> <<"7-", "Zip">>, publisher |-> <<>>,
   display_icon |-> <<"C:/Games/u", ".exe">>, uninstall_string |-> <<>>,
   picked |-> None]
Registries ==
  {<<>>, <<UbisoftConnect>>, <<SevenZip, BattleNet, RiotClient>>,
   <<RiotByUbisoft, AnnoByUbisoft>>, <<ValorantTracker>>}

\* the custom scan paths
CustomTrees ==
  {<<>>,
   <<[isdir |-> FALSE, walk |-> <<>>],
     [isdir |-> TRUE, walk |-> <<(<<"C:/BN/bn.exe">>)>>]>>,
   <<[isdir |-> TRUE,
      walk |-> <<(<<>>),
                 <<"D:/Games/CS2.exe", "D:/Games/My Game.exe",
                   "C:/Games/u.exe">>,
                 <<"C:/BN/bn.exe">>>>]>>}

\* the directories of a game folder
TreeOf(ds) == [i \in 1..Len(ds) |-> [rel |-> ds[i][1], files |-> ds[i][2]]]

Readme == <<"readme", ".txt">>
GameExe == <<"game", ".exe">>

\* game folders on the disk
Trees ==
  {TreeOf(<<(<<(<<>>), <<Readme>>>>)>>),
   TreeOf(<<(<<(<<>>), <<Readme, <<"GAME", ".EXE">>>>>>),
            <<(<<"bin">>), <<GameExe>>>>>>),
   TreeOf(<<(<<(<<>>), <<>>>>), <<(<<"bin">>), <<Readme, GameExe>>>>>>),
   TreeOf(<<(<<(<<>>), <<Readme>>>>), <<(<<"sub">>), <<>>>>,
            <<(<<"sub", "deep">>), <<GameExe>>>>>>),
   TreeOf(<<(<<(<<>>), <<Readme>>>>), <<(<<"sub">>), <<>>>>,
            <<(<<"sub", "deep">>), <<>>>>,
            <<(<<"sub", "deep", "deep2">>), <<GameExe>>>>>>),
   TreeOf(<<(<<(<<>>), <<>>>>), <<(<<"sub">>), <<>>>>,
            <<(<<"sub", "deep">>), <<>>>>,
            <<(<<"sub", "deep", "deep2">>), <<>>>>,
            <<(<<"sub", "deep", "deep2", "deep3">>), <<GameExe>>>>>>),
   TreeOf(<<(<<(<<>>), <<>>>>), <<(<<"a">>), <<>>>>,
            <<(<<"a", "b">>), <<>>>>,
            <<(<<"a", "b", "c">>), <<>>>>,
            <<(<<"a", "b", "c", "d">>), <<<<"far", ".exe">>>>>>,
            <<(<<"z">>), <<<<"near", ".exe">>>>>>>>)}

\* the folder texts the scanners hand over: joined paths, and install
\* locations as the registry or a manifest spells them
FolderTexts == {<<>>, <<"C:/Games/X">>, <<"C:/Games/X", "/">>}

Folders == [text : FolderTexts, isdir : BOOLEAN, walk : Trees]

\* the depth limits the scanners pass (lines 484, 534, 572, 620)
DepthLimits == {2, 3}

\* _pick_exe_in_folder has not been called
NoPick == [pc |-> "idle"]

\* what a discovery run can find
FileSystems ==
  [steam : SteamInstalls, epic : EpicInstalls, riot : RiotInstalls,
   registry : Registries, custom : CustomTrees]

\* no discovery run has looked yet
NoSystem ==
  [steam |-> NoSteam, epic |-> NoEpic, riot |-> <<>>, registry |-> <<>>,
   custom |-> <<>>]

\* the scanners in the order discover_all_games calls them
Scanners == <<"steam", "epic", "riot", "registry", "custom">>

\* no discovery run has started
NoRun ==
  [pc |-> "idle", found |-> <<>>, uniq |-> <<>>,
   per |-> [sc \in {Scanners[i] : i \in 1..Len(Scanners)} |-> <<>>]]

----------------------------------------------------------------------------
(* State                                                                   *)

VARIABLES
  games,                 \* self.cfg["games"]: proc_key -> profile
  order,                 \* the insertion order of that dict (its iteration order)
  saved,                 \* the document save_config wrote last
  wpc,                   \* where the watcher thread is in _watch_loop, or
                         \* the exception that ended it
  running,               \* _watch_loop's local running
  it_pos,                \* position of the dict iterator of _find_active_game
  it_size,               \* dict size the iterator was created with
  proc_key,              \* _watch_loop's local proc_key
  enum_failed,           \* whether list_running_process_names_lower took its
                         \* except branch in the tick under way
  last_applied_process,  \* self.last_applied_process
  active_process,        \* self.active_process
  stop_event,            \* self.stop_event.is_set()
  phase,                 \* "constructing" (App.__init__ has not run),
                         \* "running", "closing" (window destroyed), "exited"
  osMode,                \* the display mode Windows is in
  lastCall,              \* the latest set_resolution call and its result
  logged,                \* the line the caller of that call wrote to the
                         \* log after it returned, with the message in it
  notified,              \* the latest after(0, _ui_set_active(pk)) posted
  status,                \* the latest status message of a UI handler
  edits,                 \* save_selected_game calls so far
  manuals,               \* add_game_manually calls so far
  workers,               \* the rescan worker threads started so far
  previews,              \* the worker threads of test_resolution_7s so far
  settled,               \* history: the keys whose width and height a valid
                         \* save_selected_game or the preset forcing wrote
  fsys,                  \* what the discovery run under way finds on the
                         \* disk and in the registry
  disc,                  \* the discovery run: where discover_all_games is,
                         \* its found and uniq, and what each scanner returned
  pick,                  \* the call of _pick_exe_in_folder under way: its
                         \* arguments and, once it has returned, its result
  document,              \* CONFIG_FILE as the program found it when started
  boot,                  \* history: what load_config returned and what it
                         \* had written by then
  logging,               \* whether this behaviour records the two histories
  tickLog,               \* history: the running set each tick observed
  applyLog               \* history: the set_resolution calls, in order

storeVars == <<games, order, saved>>
scanVars == <<running, it_pos, it_size, proc_key, enum_failed>>
loopVars == <<wpc, running, it_pos, it_size, proc_key, enum_failed,
              last_applied_process, active_process>>
dispVars == <<osMode, lastCall, logged>>
uiVars == <<status, edits, manuals>>
lifeVars == <<stop_event, phase>>
bootVars == <<document, boot>>
discVars == <<fsys, disc, pick>>
histVars == <<logging, tickLog, applyLog>>
vars == <<storeVars, loopVars, dispVars, notified, uiVars, lifeVars, workers,
          previews, settled, bootVars, discVars, histVars>>

\* the display mode of the desktop when the program starts
StartMode == [width |-> 2560, height |-> 1440, freq |-> 60]

\* what discover_all_games finds when the program starts
StartupDiscovery == <<>>

\* no line of the log
NoLine == [line |-> "", msg |-> <<"", 0>>]

NoCall ==
  [by |-> "none", width |-> 0, height |-> 0, refresh_hz |-> NoRate,
   raised |-> FALSE, ok |-> FALSE, msg |-> <<"", 0>>, native |-> <<>>,
   drv |-> [query |-> TRUE, test |-> 0, apply |-> 0], n |-> 0]

\* lines 1316-1319 of save_selected_game: the three fields it assigns
WithResolution(g, w, h, r) ==
  [g EXCEPT !.width = w, !.height = h, !.refresh_hz = r]

\* load_config() without a config.json: default_config()
FreshStore == [games |-> DefaultGames, order |-> DefaultOrder]

\* load_config() of a config.json whose "games" the user trimmed by hand to
\* the Valorant preset
TrimmedStore ==
  [games |-> [k \in {"valorant-win64-shipping.exe"} |-> DefaultGames[k]],
   order |-> <<"valorant-win64-shipping.exe">>]

\* load_config() of a config.json to which the user added the CS2 preset
\* by hand, under the image name as Windows prints it
MixedCaseStore ==
  [games |-> [k \in {"CS2.exe"} |->
                [DefaultGames["cs2.exe"] EXCEPT !.process = "CS2.exe"]],
   order |-> <<"CS2.exe">>]

\* load_config() of a config.json whose "games" is the empty object
EmptyStore == [games |-> [k \in {} |-> 0], order |-> <<>>]

\* load_config() of a config.json an earlier run saved after the user
\* edited both presets
EditedStore ==
  [FreshStore EXCEPT
     !.games["cs2.exe"] = WithResolution(@, 1600, 900, 0),
     !.games["valorant-win64-shipping.exe"] = WithResolution(@, 1600, 900, 60)]

\* the folders a user has put into "custom_scan_paths"
ScanPathLists == {<<>>, <<"D:/Games">>}

\* the top-level fields of a configuration
TopLevel == {"custom_scan_paths", "games"}

\* no dict of profiles
NoGames == [k \in {} |-> 0]

\* a config.json that is not there, and one json.load cannot parse
MissingFile ==
  [kind |-> "missing", fields |-> {}, paths |-> <<>>, games |-> NoGames,
   order |-> <<>>]
CorruptFile == [MissingFile EXCEPT !.kind = "corrupt"]

\* a config.json that parses to an object with the top-level fields fs,
\* holding the store st and the scan paths ps where it has the field
JsonFile(fs, st, ps) ==
  [kind |-> "json", fields |-> fs,
   paths |-> IF "custom_scan_paths" \in fs THEN ps ELSE <<>>,
   games |-> IF "games" \in fs THEN st.games ELSE NoGames,
   order |-> IF "games" \in fs THEN st.order ELSE <<>>]

\* the config.json a run that loaded the store st leaves behind
DocumentOf(st) == JsonFile(TopLevel, st, <<>>)

\* the documents load_config finds
Documents ==
  {MissingFile, CorruptFile}
    \cup {JsonFile(fs, st, ps) : fs \in SUBSET TopLevel,
                                 st \in {FreshStore, EditedStore,
                                         TrimmedStore, MixedCaseStore,
                                         EmptyStore},
                                 ps \in ScanPathLists}

\* default_config(): the two presets, no scan paths
default_config ==
  [fields |-> TopLevel, paths |-> <<>>, games |-> DefaultGames,
   order |-> DefaultOrder]

\* the dicts a load_config without line 233 makes of a parsed document
ParsedNoPathDefault(doc) ==
  IF "games" \notin doc.fields
  THEN default_config
  ELSE [fields |-> doc.fields, paths |-> doc.paths, games |-> doc.games,
        order |-> doc.order]

\* a load_config that does not supply "custom_scan_paths"
load_config_no_path_default(doc) ==
  LET cfg == IF doc.kind = "json" THEN ParsedNoPathDefault(doc)
             ELSE default_config
  IN [cfg |-> cfg, written |-> cfg]

\* a load_config that returns the default without writing it when the file
\* is missing or does not parse
load_config_unsaved(doc) ==
  LET cfg == IF doc.kind = "json"
             THEN [ParsedNoPathDefault(doc) EXCEPT !.fields = TopLevel]
             ELSE default_config
  IN [cfg |-> cfg,
      written |-> IF doc.kind = "json" THEN cfg
                  ELSE [fields |-> doc.fields, paths |-> doc.paths,
                        games |-> doc.games, order |-> doc.order]]

\* load_config(): the configuration it returns and the one it has written
\* to CONFIG_FILE when it returns
load_config(doc) ==
  IF doc.kind = "missing"
  THEN [cfg |-> default_config, written |-> default_config]
  ELSE IF doc.kind = "corrupt"
  THEN [cfg |-> default_config, written |-> default_config]
  ELSE LET parsed == [fields |-> doc.fields, paths |-> doc.paths,
                      games |-> doc.games, order |-> doc.order]
           reset == IF "games" \notin parsed.fields
                    THEN default_config ELSE parsed
           cfg == IF "custom_scan_paths" \notin reset.fields
                  THEN [reset EXCEPT
                          !.fields = @ \cup {"custom_scan_paths"},
                          !.paths = <<>>]
                  ELSE reset
       IN [cfg |-> cfg, written |-> cfg]

\* the keys of a profile dict, in the order the program writes them
ProfileKeys ==
  <<"name", "process", "width", "height", "refresh_hz", "image_path",
    "exe_path", "source">>
IntKeys == {"width", "height", "refresh_hz"}

\* whether the profile dict p holds key f
Holds(p, f) == IF f \in IntKeys THEN p[f] # NoInt ELSE p[f] # Missing

\* the JSON value json.dump writes for p[f]: a number, null or a string
JsonValue(p, f) ==
  IF f \in IntKeys THEN [t |-> "number", n |-> p[f], s |-> ""]
  ELSE IF p[f] = None THEN [t |-> "null", n |-> 0, s |-> ""]
  ELSE [t |-> "string", n |-> 0, s |-> p[f]]

\* the JSON object json.dump writes for the profile dict p: a member for
\* every key the dict holds
JsonObject(p) ==
  LET keys == SelectSeq(ProfileKeys, LAMBDA f : Holds(p, f))
  IN [i \in 1..Len(keys) |-> [key |-> keys[i], val |-> JsonValue(p, keys[i])]]

\* a json.dump that leaves out the members whose value is None
json_dump_without_null(cfg) ==
  [fields |-> cfg.fields,
   paths |-> [i \in 1..Len(cfg.paths) |->
                [t |-> "string", n |-> 0, s |-> cfg.paths[i]]],
   games |-> [i \in 1..Len(cfg.order) |->
                [key |-> cfg.order[i],
                 members |-> SelectSeq(JsonObject(cfg.games[cfg.order[i]]),
                                       LAMBDA m : m.val.t # "null")]]]

\* json.dump(cfg, f, indent=2, ensure_ascii=False): the text of the
\* document, as its top-level keys, the array of scan paths and the
\* members of "games" in the order of the dict
json_dump(cfg) ==
  [fields |-> cfg.fields,
   paths |-> [i \in 1..Len(cfg.paths) |->
                [t |-> "string", n |-> 0, s |-> cfg.paths[i]]],
   games |-> [i \in 1..Len(cfg.order) |->
                [key |-> cfg.order[i],
                 members |-> JsonObject(cfg.games[cfg.order[i]])]]]

\* save_config(cfg): what it writes to CONFIG_FILE
save_config(cfg) == json_dump(cfg)

\* the Python value json.load makes of a JSON value
PyValue(v) ==
  IF v.t = "number" THEN v.n ELSE IF v.t = "null" THEN None ELSE v.s

\* the dict json.load makes of the members ms of a JSON object (of two
\* members with one key the later one stays)
PyDict(ms) ==
  [f \in {ProfileKeys[i] : i \in 1..Len(ProfileKeys)} |->
     IF \E i \in 1..Len(ms) : ms[i].key = f
     THEN PyValue(ms[CHOOSE i \in 1..Len(ms) :
                       /\ ms[i].key = f
                       /\ \A j \in (i + 1)..Len(ms) : ms[j].key # f].val)
     ELSE IF f \in IntKeys THEN NoInt ELSE Missing]

\* json.load(f) of a text json_dump wrote: the document load_config works on
json_load(text) ==
  [kind |-> "json", fields |-> text.fields,
   paths |-> [i \in 1..Len(text.paths) |-> PyValue(text.paths[i])],
   games |-> [k \in {text.games[i].key : i \in 1..Len(text.games)} |->
                PyDict(text.games[CHOOSE i \in 1..Len(text.games) :
                                    text.games[i].key = k].members)],
   order |-> [i \in 1..Len(text.games) |-> text.games[i].key]]

\* before load_config has run
NotLoaded ==
  [done |-> FALSE,
   cfg |-> [fields |-> {}, paths |-> <<>>, games |-> NoGames, order |-> <<>>],
   written |-> [fields |-> {}, paths |-> <<>>, games |-> NoGames,
                order |-> <<>>]]

\* load_config has returned res
Loaded(res) == [done |-> TRUE, cfg |-> res.cfg, written |-> res.written]

\* App.__init__ on the loaded store st: the startup merge (which saves),
\* then the watcher thread is started
Started(st) ==
  /\ games = MergeInto(st.games, st.order, StartupDiscovery).games
  /\ order = MergeInto(st.games, st.order, StartupDiscovery).order
  /\ saved = [games |-> games, order |-> order]
  /\ document = DocumentOf(st)
  /\ boot = Loaded(load_config(document))
  /\ wpc = "idle"
  /\ running = {}
  /\ it_pos = 1
  /\ it_size = 0
  /\ proc_key = None
  /\ enum_failed = FALSE
  /\ last_applied_process = None
  /\ active_process = None
  /\ stop_event = FALSE
  /\ phase = "running"
  /\ osMode = StartMode
  /\ lastCall = NoCall
  /\ logged = NoLine
  /\ notified = [n |-> 0, key |-> None]
  /\ status = ""
  /\ edits = 0
  /\ manuals = 0
  /\ workers = <<>>
  /\ previews = <<>>
  /\ settled = {}
  /\ fsys = NoSystem
  /\ disc = NoRun
  /\ pick = NoPick
  /\ tickLog = <<>>
  /\ applyLog = <<>>

\* behaviours of any length, without the histories
Init ==
  /\ \E st \in {FreshStore, TrimmedStore} : Started(st)
  /\ logging = FALSE

\* as Init, from the stores whose profiles have rates of 0, 60 and 144
InitPreview ==
  /\ \E st \in {FreshStore, EditedStore} : Started(st)
  /\ logging = FALSE

\* as Init, from every store of the model
InitStore ==
  /\ \E st \in {FreshStore, TrimmedStore, EditedStore, MixedCaseStore} :
       Started(st)
  /\ logging = FALSE

\* the process has started and App.__init__ has not run: any document
InitLoad ==
  /\ document \in Documents
  /\ boot = NotLoaded
  /\ games = NoGames
  /\ order = <<>>
  /\ saved = [games |-> document.games, order |-> document.order]
  /\ wpc = "idle"
  /\ running = {}
  /\ it_pos = 1
  /\ it_size = 0
  /\ proc_key = None
  /\ enum_failed = FALSE
  /\ last_applied_process = None
  /\ active_process = None
  /\ stop_event = FALSE
  /\ phase = "constructing"
  /\ osMode = StartMode
  /\ lastCall = NoCall
  /\ logged = NoLine
  /\ notified = [n |-> 0, key |-> None]
  /\ status = ""
  /\ edits = 0
  /\ manuals = 0
  /\ workers = <<>>
  /\ previews = <<>>
  /\ settled = {}
  /\ fsys = NoSystem
  /\ disc = NoRun
  /\ pick = NoPick
  /\ tickLog = <<>>
  /\ applyLog = <<>>
  /\ logging = FALSE

\* behaviours of at most MaxTicks ticks, with the histories
InitLogged ==
  /\ \E st \in {FreshStore, EditedStore} : Started(st)
  /\ logging = TRUE

\* the history of set_resolution calls, kept by every action that can call
LogCall ==
  /\ applyLog' =
       IF logging /\ lastCall'.n # lastCall.n
       THEN Append(applyLog, <<lastCall'.by, lastCall'.width, lastCall'.height,
                               lastCall'.refresh_hz>>)
       ELSE applyLog
  /\ UNCHANGED logging

----------------------------------------------------------------------------
(* set_resolution, called by one of the threads                            *)

\* what the driver did, as far as the call got to see it
Seen(o, res) ==
  [query |-> o.query,
   test |-> IF Len(res.native) >= 2 THEN o.test ELSE 0,
   apply |-> IF Len(res.native) >= 3 THEN o.apply ELSE 0]

\* lastCall.n alternates with every call, so that two equal calls in a row
\* are two values of lastCall
CallRecord(by, width, height, refresh_hz, o, res) ==
  [by |-> by, width |-> width, height |-> height, refresh_hz |-> refresh_hz,
   raised |-> res.raised, ok |-> res.ok, msg |-> res.msg,
   native |-> res.native, drv |-> Seen(o, res), n |-> 1 - lastCall.n]

DoCall(by, width, height, refresh_hz, o) ==
  LET res == set_resolution(osMode, width, height, refresh_hz, o) IN
  /\ osMode' = res.mode
  /\ lastCall' = CallRecord(by, width, height, refresh_hz, o, res)

----------------------------------------------------------------------------
(* The watcher thread: _watch_loop                                         *)

\* while not self.stop_event.is_set(): the loop ends
WatchExit ==
  /\ phase # "exited"
  /\ wpc = "idle"
  /\ stop_event
  /\ wpc' = "done"
  /\ UNCHANGED <<storeVars, scanVars, last_applied_process, active_process,
                 dispVars, notified, uiVars, bootVars, discVars, lifeVars,
                 workers, previews,
                 settled, histVars>>

\* a tick that starts without looking at the stop signal
TickStartUnchecked ==
  /\ phase # "exited"
  /\ wpc = "idle"
  /\ logging => Len(tickLog) < MaxTicks
  /\ \E actual \in SUBSET ImageNames, fails \in BOOLEAN :
       /\ running' = list_running_process_names_lower(actual, fails)
       /\ enum_failed' = fails
  /\ tickLog' = IF logging THEN Append(tickLog, running') ELSE tickLog
  /\ UNCHANGED <<logging, applyLog>>
  /\ it_pos' = 1
  /\ it_size' = Len(order)
  /\ wpc' = "scan"
  /\ UNCHANGED <<storeVars, proc_key, last_applied_process, active_process,
                 dispVars, notified, uiVars, bootVars, discVars, lifeVars,
                 workers, previews,
                 settled>>

\* a tick starts: the stop check, list_running_process_names_lower() and
\* the creation of the iterator over games.items() in _find_active_game
TickStart ==
  /\ phase # "exited"
  /\ wpc = "idle"
  /\ ~stop_event
  /\ logging => Len(tickLog) < MaxTicks
  /\ \E actual \in SUBSET ImageNames, fails \in BOOLEAN :
       /\ running' = list_running_process_names_lower(actual, fails)
       /\ enum_failed' = fails
  /\ tickLog' = IF logging THEN Append(tickLog, running') ELSE tickLog
  /\ UNCHANGED <<logging, applyLog>>
  /\ it_pos' = 1
  /\ it_size' = Len(order)
  /\ wpc' = "scan"
  /\ UNCHANGED <<storeVars, proc_key, last_applied_process, active_process,
                 dispVars, notified, uiVars, bootVars, discVars, lifeVars,
                 workers, previews,
                 settled>>

\* the process name line 1359 compares: str(g.get("process", proc_key)).lower()
ProfileProcess(k) == Lower(Get(games[k], "process", k))

\* _find_active_game has returned: its locals are read no more (the model
\* clears them)
ScanDone == running' = {} /\ it_pos' = 1

\* a scan that walks the store from its last profile to its first
ScanStepBackwards ==
  /\ phase # "exited"
  /\ wpc = "scan"
  /\ IF Len(order) # it_size
     THEN wpc' = "RuntimeError" /\ UNCHANGED <<running, it_pos, proc_key>>
     ELSE IF it_pos > Len(order)
     THEN wpc' = "apply" /\ proc_key' = None /\ ScanDone
     ELSE IF ProfileProcess(order[Len(order) + 1 - it_pos]) \in running
     THEN wpc' = "apply" /\ proc_key' = Lower(order[Len(order) + 1 - it_pos]) /\ ScanDone
     ELSE wpc' = "scan" /\ it_pos' = it_pos + 1
          /\ UNCHANGED <<running, proc_key>>
  /\ UNCHANGED <<storeVars, it_size, enum_failed, last_applied_process,
                 active_process, dispVars, notified, uiVars, bootVars,
                 discVars, lifeVars,
                 workers,
                 previews, settled, histVars>>

\* one step of the for loop of _find_active_game: the iterator raises
\* RuntimeError when the dict changed size since it was created (the thread
\* ends), else the loop looks at the next profile or ends
ScanStep ==
  /\ phase # "exited"
  /\ wpc = "scan"
  /\ IF Len(order) # it_size
     THEN wpc' = "RuntimeError" /\ UNCHANGED <<running, it_pos, proc_key>>
     ELSE IF it_pos > Len(order)
     THEN wpc' = "apply" /\ proc_key' = None /\ ScanDone
     ELSE IF ProfileProcess(order[it_pos]) \in running
     THEN wpc' = "apply" /\ proc_key' = Lower(order[it_pos]) /\ ScanDone
     ELSE wpc' = "scan" /\ it_pos' = it_pos + 1
          /\ UNCHANGED <<running, proc_key>>
  /\ UNCHANGED <<storeVars, it_size, enum_failed, last_applied_process,
                 active_process, dispVars, notified, uiVars, bootVars,
                 discVars, lifeVars,
                 workers,
                 previews, settled, histVars>>

\* lines 1404-1408 of _watch_loop: tell the UI when the match changed, sleep
Notify ==
  /\ IF proc_key # active_process
     THEN /\ active_process' = proc_key
          /\ notified' = [n |-> 1 - notified.n, key |-> proc_key]
     ELSE UNCHANGED <<active_process, notified>>
  /\ wpc' = "idle"

\* the exception of set_resolution leaves _apply_game_resolution_if_needed
\* and _watch_loop: the thread ends
WatcherRaised ==
  /\ wpc' = "OSError"
  /\ UNCHANGED <<last_applied_process, active_process, notified>>

\* arguments that pass the stored rate even when it is 0
ProfileCallRateAlways(g) ==
  [width |-> g.width, height |-> g.height, refresh_hz |-> {g.refresh_hz}]

\* the arguments lines 1379-1382 pass to set_resolution for profile g
ProfileCall(g) ==
  [width |-> GetInt(g, "width", DEFAULT_WIDTH),
   height |-> GetInt(g, "height", DEFAULT_HEIGHT),
   refresh_hz |-> RateArg(GetInt(g, "refresh_hz", 0))]

\* a guard that never skips
NeverApplied(k) == FALSE

\* a guard that also looks at the values: it skips only while the display
\* is in the matched profile's mode
AppliedAndShown(k) ==
  /\ k = last_applied_process
  /\ k \in DOMAIN games =>
       /\ osMode.width = ProfileCall(games[k]).width
       /\ osMode.height = ProfileCall(games[k]).height

\* line 1365: the match is what was applied last
AlreadyApplied(k) == k = last_applied_process

\* self.log(line) right after a set_resolution call whose result is not
\* looked at: the line is written unless the call raised
LogLine(line) ==
  logged' = IF lastCall'.raised THEN NoLine
            ELSE [line |-> line, msg |-> <<"", 0>>]

\* lines 1368-1373: no profile matches
RevertToDefault ==
  IF last_applied_process # None
  THEN \E o \in DriverOutcomes :
         /\ DoCall("loop", DEFAULT_WIDTH, DEFAULT_HEIGHT, NoRate, o)
         /\ LogLine("Kein Spiel aktiv")
         /\ IF lastCall'.raised
            THEN WatcherRaised
            ELSE last_applied_process' = None /\ Notify
  ELSE /\ last_applied_process' = None
       /\ UNCHANGED dispVars
       /\ Notify

\* lines 1375-1384: the matched profile is applied
ApplyProfile ==
  IF proc_key \notin DOMAIN games
  THEN /\ UNCHANGED <<last_applied_process, dispVars>>
       /\ Notify
  ELSE \E o \in DriverOutcomes :
         LET c == ProfileCall(games[proc_key])
         IN /\ DoCall("loop", c.width, c.height, c.refresh_hz, o)
            /\ LogLine("Aktiv erkannt")
            /\ IF lastCall'.raised
               THEN WatcherRaised
               ELSE last_applied_process' = proc_key /\ Notify

\* the rest of a tick: _apply_game_resolution_if_needed(proc_key), then the
\* notification and the sleep
ApplyStep ==
  /\ phase # "exited"
  /\ wpc = "apply"
  /\ IF AlreadyApplied(proc_key)
     THEN /\ UNCHANGED <<last_applied_process, dispVars>>
          /\ Notify
     ELSE IF proc_key = None
     THEN RevertToDefault
     ELSE ApplyProfile
  /\ LogCall
  /\ enum_failed' = FALSE
  /\ UNCHANGED <<storeVars, running, it_pos, it_size, proc_key, uiVars,
                 bootVars, discVars, lifeVars, workers, previews, settled,
                 tickLog>>

----------------------------------------------------------------------------
(* The UI thread                                                           *)

\* save_config(self.cfg)
SaveConfig == saved' = [games |-> games', order |-> order']

\* save_selected_game with the dropdown on profile sel and the three texts
SaveSelectedGame ==
  /\ phase = "running"
  /\ edits < MaxEdits
  /\ edits' = edits + 1
  /\ \E sel \in DOMAIN games, wt \in WidthTexts, ht \in HeightTexts,
        rt \in RefreshTexts :
       LET k == Lower(sel)
           stub == [name |-> k, process |-> k, width |-> NoInt,
                    height |-> NoInt, refresh_hz |-> NoInt,
                    image_path |-> Missing, exe_path |-> Missing,
                    source |-> Missing]
           d == IF k \in DOMAIN games
                THEN [games |-> games, order |-> order]
                ELSE DictSet(games, order, k, stub)
       IN IF _parse_int(wt) = {} \/ _parse_int(ht) = {} \/ ParseRefresh(rt) = {}
          THEN /\ games' = d.games
               /\ order' = d.order
               /\ status' = "invalid"
               /\ UNCHANGED <<saved, settled>>
          ELSE LET w == CHOOSE v \in _parse_int(wt) : TRUE
                   h == CHOOSE v \in _parse_int(ht) : TRUE
                   r == CHOOSE v \in ParseRefresh(rt) : TRUE
               IN /\ games' = [d.games EXCEPT ![k] = WithResolution(@, w, h, r)]
                  /\ order' = d.order
                  /\ SaveConfig
                  /\ status' = "Gespeichert."
                  /\ settled' = settled \cup {k}
  /\ UNCHANGED <<loopVars, dispVars, notified, manuals, bootVars, discVars,
                 lifeVars, workers,
                 previews, histVars>>

\* an on_close that resets the display only when a profile is applied
OnCloseIfApplied ==
  /\ phase = "running"
  /\ stop_event' = TRUE
  /\ IF last_applied_process # None
     THEN \E o \in [query : BOOLEAN, test : {0, 0 - 2}, apply : {0, 0 - 1}] :
            LET res == set_resolution(osMode, 1920, 1080, {}, o) IN
            /\ osMode' = res.mode
            /\ lastCall' = CallRecord("close", 1920, 1080, {}, o, res)
            /\ logged' = NoLine
     ELSE UNCHANGED <<osMode, lastCall, logged>>
  /\ phase' = "closing"
  /\ LogCall
  /\ UNCHANGED <<storeVars, loopVars, notified, uiVars, workers, previews,
                 settled, bootVars, discVars, tickLog>>

\* on_close: raise the stop signal, set the baseline mode (an exception of
\* set_resolution is swallowed), destroy the window
OnClose ==
  /\ phase = "running"
  /\ stop_event' = TRUE
  /\ \E o \in DriverOutcomes :
       DoCall("close", DEFAULT_WIDTH, DEFAULT_HEIGHT, NoRate, o)
  /\ logged' = NoLine
  /\ phase' = "closing"
  /\ LogCall
  /\ UNCHANGED <<storeVars, loopVars, notified, uiVars, workers, previews,
                 settled, bootVars, discVars, tickLog>>

\* mainloop() has returned: the interpreter exits and its daemon threads
\* stop wherever they are
ProcessExit ==
  /\ phase = "closing"
  /\ phase' = "exited"
  /\ UNCHANGED <<storeVars, loopVars, dispVars, notified, uiVars, stop_event,
                 workers, previews, settled, bootVars, discVars, histVars>>

\* os.path.splitext(path)[1].lower() of the pictures the user can pick
\* ("" : a file without extension)
PictureExts == {".jpg", ""}

\* choose_image_for_selected_game with the dropdown on profile sel, a picked
\* picture and the outcome of shutil.copy2; for a selection the store does
\* not hold under its lowercased key, line 1288 raises KeyError and the
\* handler ends there
ChooseImage ==
  /\ phase = "running"
  /\ \E sel \in DOMAIN games, ext \in PictureExts, copied \in BOOLEAN :
       LET k == Lower(sel)
           target == <<"images", _safe_filename(k),
                       IF ext = "" THEN ".png" ELSE ext>>
       IN IF ~copied
          THEN /\ status' = "Bild konnte nicht übernommen werden."
               /\ UNCHANGED storeVars
          ELSE IF k \notin DOMAIN games
          THEN UNCHANGED <<storeVars, status>>
          ELSE /\ games' = [games EXCEPT ![k].image_path = target]
               /\ order' = order
               /\ SaveConfig
               /\ status' = "Bild geändert."
  /\ UNCHANGED <<loopVars, dispVars, notified, edits, manuals, bootVars,
                 discVars,
                 lifeVars, workers, previews, settled, histVars>>

\* add_game_manually with the file the dialog returned
AddGameManually ==
  /\ phase = "running"
  /\ manuals < MaxManual
  /\ manuals' = manuals + 1
  /\ \E path \in PickedPaths :
       LET proc == Basename(path)
           k == Lower(proc)
           new == [name |-> Stem(proc), process |-> proc,
                   width |-> DEFAULT_WIDTH, height |-> DEFAULT_HEIGHT,
                   refresh_hz |-> INSERT_REFRESH_HZ,
                   image_path |-> ImagePathFor(k),
                   exe_path |-> path, source |-> "manual"]
       IN IF path = ""
          THEN UNCHANGED <<storeVars, status>>
          ELSE IF ~IsExePath(path)
          THEN status' = "Ungültige EXE." /\ UNCHANGED storeVars
          ELSE IF k \notin DOMAIN games
          THEN /\ games' = DictSet(games, order, k, new).games
               /\ order' = DictSet(games, order, k, new).order
               /\ SaveConfig
               /\ status' = "Spiel hinzugefügt."
          ELSE /\ status' = "Spiel existiert bereits."
               /\ IF ~Truthy(games[k].exe_path)
                  THEN /\ games' =
                            [games EXCEPT ![k] =
                               [@ EXCEPT !.exe_path = path,
                                         !.source = IF Truthy(@) THEN @
                                                    ELSE "manual"]]
                       /\ UNCHANGED order
                       /\ SaveConfig
                  ELSE UNCHANGED storeVars
  /\ UNCHANGED <<loopVars, dispVars, notified, edits, bootVars, discVars,
                 lifeVars, workers,
                 previews, settled, histVars>>

\* int(str(self.r_var.get()).strip() or "0") of test_resolution_7s: any
\* integer, ValueError (no value) for other text
ParsePreviewRefresh(s) == IntOfText(IF s = "" THEN "0" ELSE s)

\* test_resolution_7s with the three texts: a worker thread is started
\* unless a text does not parse
TestResolution ==
  /\ phase = "running"
  /\ Len(previews) < MaxPreviews
  /\ \E wt \in WidthTexts, ht \in HeightTexts, rt \in RefreshTexts :
       IF _parse_int(wt) = {} \/ _parse_int(ht) = {}
          \/ ParsePreviewRefresh(rt) = {}
       THEN status' = "invalid" /\ UNCHANGED previews
       ELSE /\ previews' =
                 Append(previews,
                        [pc |-> "apply",
                         w |-> CHOOSE v \in _parse_int(wt) : TRUE,
                         h |-> CHOOSE v \in _parse_int(ht) : TRUE,
                         r |-> CHOOSE v \in ParsePreviewRefresh(rt) : TRUE])
            /\ UNCHANGED status
  /\ UNCHANGED <<storeVars, loopVars, dispVars, notified, edits, manuals,
                 bootVars, discVars, lifeVars, workers, settled, histVars>>

\* rescan_games: a worker thread is started
RescanGames ==
  /\ phase = "running"
  /\ Len(workers) < MaxRescans
  /\ workers' = Append(workers, [pc |-> "discover", discovered |-> <<>>,
                                 i |-> 1, added |-> 0, preset |-> 1,
                                 fresh |-> {}])
  /\ status' = "Scan läuft"
  /\ UNCHANGED <<storeVars, loopVars, dispVars, notified, edits, manuals,
                 bootVars, discVars, lifeVars, previews, settled, histVars>>

----------------------------------------------------------------------------
(* A worker thread of test_resolution_7s                                   *)

PreviewAt(p, pc) ==
  /\ phase # "exited"
  /\ p \in 1..Len(previews)
  /\ previews[p].pc = pc

PreviewFrame == UNCHANGED <<storeVars, loopVars, notified, uiVars,
                            bootVars, discVars,
                            lifeVars,
                            workers, settled, tickLog>>

\* line 1338: the typed mode is applied; a failure status ends the worker,
\* an exception ends its thread
PApply(p) ==
  /\ PreviewAt(p, "apply")
  /\ \E o \in DriverOutcomes :
       DoCall("test", previews[p].w, previews[p].h, RateArg(previews[p].r), o)
  /\ logged' = IF lastCall'.raised THEN NoLine
                ELSE IF lastCall'.ok
                THEN [line |-> "Test gestartet", msg |-> <<"", 0>>]
                ELSE [line |-> "Test fehlgeschlagen", msg |-> lastCall'.msg]
  /\ previews' = [previews EXCEPT ![p].pc =
                    IF lastCall'.raised THEN "OSError"
                    ELSE IF lastCall'.ok THEN "sleep" ELSE "done"]
  /\ LogCall
  /\ PreviewFrame

\* lines 1347-1348: TEST_SECONDS later the baseline mode is set
PRevert(p) ==
  /\ PreviewAt(p, "sleep")
  /\ \E o \in DriverOutcomes :
       DoCall("test revert", DEFAULT_WIDTH, DEFAULT_HEIGHT, NoRate, o)
  /\ LogLine("Test beendet")
  /\ previews' = [previews EXCEPT ![p].pc =
                    IF lastCall'.raised THEN "OSError" ELSE "done"]
  /\ LogCall
  /\ PreviewFrame

PreviewWorkerNext(p) ==
  \/ PApply(p)
  \/ PRevert(p)

----------------------------------------------------------------------------
(* A rescan worker thread: _merge_discovered_games_into_config             *)

WorkerAt(w, pc) ==
  /\ phase # "exited"
  /\ w \in 1..Len(workers)
  /\ workers[w].pc = pc

\* a worker's record holds the locals of the merge (discovered, the loop
\* index i, added, the preset block it is at) and, as history, the keys it
\* inserted (fresh)

\* the candidate the worker's for loop is at
Cand(w) == workers[w].discovered[workers[w].i]

WorkerFrame == UNCHANGED <<loopVars, dispVars, notified, uiVars, bootVars,
                            discVars, lifeVars,
                           previews, histVars>>

\* lines 1085-1087: discover_all_games returns
WDiscover(w) ==
  /\ WorkerAt(w, "discover")
  /\ \E d \in DiscoveryResults :
       workers' = [workers EXCEPT ![w] = [@ EXCEPT !.pc = "next",
                                                   !.discovered = d]]
  /\ UNCHANGED storeVars
  /\ UNCHANGED settled
  /\ WorkerFrame

\* lines 1090-1094: the next candidate, and whether its key is in games
WNext(w) ==
  /\ WorkerAt(w, "next")
  /\ workers' =
       [workers EXCEPT ![w] =
          IF @.i > Len(@.discovered) THEN [@ EXCEPT !.pc = "preset"]
          ELSE IF CandKey(Cand(w)) = "" THEN [@ EXCEPT !.i = @ + 1]
          ELSE IF CandKey(Cand(w)) \in DOMAIN games
          THEN [@ EXCEPT !.pc = "backfill"]
          ELSE [@ EXCEPT !.pc = "insert"]]
  /\ UNCHANGED storeVars
  /\ UNCHANGED settled
  /\ WorkerFrame

\* lines 1096-1100: the key exists
WBackfill(w) ==
  /\ WorkerAt(w, "backfill")
  /\ games' = [games EXCEPT ![CandKey(Cand(w))] = Backfill(@, Cand(w))]
  /\ workers' = [workers EXCEPT ![w] = [@ EXCEPT !.pc = "next", !.i = @ + 1]]
  /\ UNCHANGED <<order, saved>>
  /\ UNCHANGED settled
  /\ WorkerFrame

\* lines 1102-1112: the key was absent when line 1094 looked
WInsert(w) ==
  /\ WorkerAt(w, "insert")
  /\ LET k == CandKey(Cand(w))
         d == DictSet(games, order, k, NewProfile(k, Cand(w)))
     IN games' = d.games /\ order' = d.order
  /\ workers' = [workers EXCEPT ![w] =
                   [@ EXCEPT !.pc = "next", !.i = @ + 1, !.added = @ + 1,
                             !.fresh = @ \cup {CandKey(Cand(w))}]]
  /\ UNCHANGED saved
  /\ UNCHANGED settled
  /\ WorkerFrame

\* lines 1115-1117 and 1120-1122: the next preset, setdefault of its name
\* and the test whether its resolution is still the default pair
WPresetCheck(w) ==
  /\ WorkerAt(w, "preset")
  /\ LET n == workers[w].preset
         k == Presets[n].key
         skip == [workers EXCEPT ![w] = [@ EXCEPT !.preset = @ + 1]]
     IN IF n > Len(Presets)
        THEN /\ workers' = [workers EXCEPT ![w] = [@ EXCEPT !.pc = "save"]]
             /\ UNCHANGED games
        ELSE IF k \notin DOMAIN games
        THEN workers' = skip /\ UNCHANGED games
        ELSE /\ games' = [games EXCEPT ![k] =
                            SetDefaultName(@, Presets[n].name)]
             /\ workers' = IF StillDefault(games[k])
                           THEN [workers EXCEPT ![w] =
                                   [@ EXCEPT !.pc = "preset write"]]
                           ELSE skip
  /\ UNCHANGED <<order, saved>>
  /\ UNCHANGED settled
  /\ WorkerFrame

\* lines 1118-1119 and 1123-1124: the forced resolution is written
WPresetWrite(w) ==
  /\ WorkerAt(w, "preset write")
  /\ LET pr == Presets[workers[w].preset]
     IN games' = [games EXCEPT ![pr.key] = ForceResolution(@, pr.width)]
  /\ workers' = [workers EXCEPT ![w] = [@ EXCEPT !.pc = "preset",
                                                 !.preset = @ + 1]]
  /\ UNCHANGED <<order, saved>>
  /\ settled' = settled \cup {Presets[workers[w].preset].key}
  /\ WorkerFrame

\* line 1126: save_config(self.cfg), and the worker returns
WSave(w) ==
  /\ WorkerAt(w, "save")
  /\ saved' = [games |-> games, order |-> order]
  /\ workers' = [workers EXCEPT ![w] = [@ EXCEPT !.pc = "done"]]
  /\ UNCHANGED <<games, order>>
  /\ UNCHANGED settled
  /\ WorkerFrame

\* CONFIG_FILE right after open(CONFIG_FILE, "w"): no text
EmptyFile == [games |-> NoGames, order |-> <<>>, truncated |-> TRUE]

\* save_config of line 1126 when other threads run during it.  Lines
\* 244-245: open(CONFIG_FILE, "w") empties the file and json.dump fills
\* the buffer of the file object with the text of the store as it is
WSaveOpen(w) ==
  /\ WorkerAt(w, "save")
  /\ saved' = EmptyFile
  /\ workers' = [workers EXCEPT ![w] =
                   [pc |-> "flush", discovered |-> @.discovered, i |-> @.i,
                    added |-> @.added, preset |-> @.preset,
                    fresh |-> @.fresh,
                    text |-> [games |-> games, order |-> order]]]
  /\ UNCHANGED <<games, order>>
  /\ UNCHANGED settled
  /\ WorkerFrame

\* the with block ends: the buffer is written at the start of the file.
\* Where another save has written a longer text since the open, its tail
\* stays behind the text; the model keeps the text alone
WSaveClose(w) ==
  /\ WorkerAt(w, "flush")
  /\ saved' = workers[w].text
  /\ workers' = [workers EXCEPT ![w] =
                   [pc |-> "done", discovered |-> @.discovered, i |-> @.i,
                    added |-> @.added, preset |-> @.preset,
                    fresh |-> @.fresh]]
  /\ UNCHANGED <<games, order>>
  /\ UNCHANGED settled
  /\ WorkerFrame

WorkerNext(w) ==
  \/ WDiscover(w)
  \/ WNext(w)
  \/ WBackfill(w)
  \/ WInsert(w)
  \/ WPresetCheck(w)
  \/ WPresetWrite(w)
  \/ WSave(w)

----------------------------------------------------------------------------
(* The watcher, the display and the UI handlers that edit and close        *)

LoopNext ==
  \/ TickStart
  \/ ScanStep
  \/ ApplyStep
  \/ WatchExit
  \/ SaveSelectedGame
  \/ OnClose
  \/ ProcessExit

SpecLoop == Init /\ [][LoopNext]_vars

\* the steps of the watcher thread
WatcherNext ==
  \/ TickStart
  \/ ScanStep
  \/ ApplyStep
  \/ WatchExit

\* the same behaviours, in which the watcher thread is scheduled again and
\* again while it lives: its sleep of one second returns
SpecLoopFair == SpecLoop /\ WF_vars(WatcherNext)

\* the watcher, the display and shutdown, recording the histories, for at
\* most MaxTicks ticks
LoggedNext ==
  \/ TickStart
  \/ ScanStep
  \/ ApplyStep
  \/ WatchExit
  \/ OnClose
  \/ ProcessExit

SpecLogged == InitLogged /\ [][LoggedNext]_vars

----------------------------------------------------------------------------
(* The store under one thread at a time: the user edits, adds and rescans  *)
(* only while no merge is under way                                        *)

\* App.__init__: load_config, the startup merge (which saves), the start of
\* the watcher thread
Construct ==
  /\ phase = "constructing"
  /\ LET res == load_config(document)
         merged == MergeInto(res.cfg.games, res.cfg.order, StartupDiscovery)
     IN /\ boot' = Loaded(res)
        /\ games' = merged.games
        /\ order' = merged.order
        /\ saved' = [games |-> merged.games, order |-> merged.order]
  /\ phase' = "running"
  /\ UNCHANGED <<loopVars, dispVars, notified, uiVars, stop_event, workers,
                 previews, settled, document, discVars, histVars>>

\* discover_all_games is called: the disk and the registry as this run
\* will find them
StartDiscovery ==
  /\ phase = "running"
  /\ disc.pc = "idle"
  /\ fsys' \in FileSystems
  /\ disc' = [disc EXCEPT !.pc = "steam"]
  /\ UNCHANGED <<storeVars, loopVars, dispVars, notified, uiVars, lifeVars,
                 workers, previews, settled, bootVars, pick, histVars>>

\* found.extend(<scanner>()) with the list res the scanner returned
Extend(sc, res, next) ==
  disc' = [disc EXCEPT !.found = @ \o res, !.per[sc] = res, !.pc = next]

DiscoveryFrame ==
  UNCHANGED <<storeVars, loopVars, dispVars, notified, uiVars, lifeVars,
              workers, previews, settled, bootVars, fsys, pick,
              histVars>>

\* line 678
ScanSteam ==
  /\ disc.pc = "steam"
  /\ Extend("steam", discover_steam_games(fsys.steam), "epic")
  /\ DiscoveryFrame

\* line 679: an exception of discover_epic_games leaves discover_all_games
ScanEpic ==
  /\ disc.pc = "epic"
  /\ LET res == discover_epic_games(fsys.epic)
     IN IF res.raised
        THEN disc' = [disc EXCEPT !.pc = "AttributeError"]
        ELSE Extend("epic", res.found, "riot")
  /\ DiscoveryFrame

\* line 680
ScanRiot ==
  /\ disc.pc = "riot"
  /\ Extend("riot", discover_riot_games(fsys.riot), "registry")
  /\ DiscoveryFrame

\* line 681
ScanRegistry ==
  /\ disc.pc = "registry"
  /\ Extend("registry", discover_from_uninstall_entries(fsys.registry),
            "custom")
  /\ DiscoveryFrame

\* line 682
ScanCustom ==
  /\ disc.pc = "custom"
  /\ Extend("custom", discover_custom_paths(fsys.custom), "uniq")
  /\ DiscoveryFrame

\* lines 685-695: the dedup, and the return of uniq
Unique ==
  /\ disc.pc = "uniq"
  /\ disc' = [disc EXCEPT !.uniq = UniqLoop(disc.found, 1, <<>>, {}),
                          !.pc = "done"]
  /\ DiscoveryFrame

PickFrame ==
  UNCHANGED <<storeVars, loopVars, dispVars, notified, uiVars, lifeVars,
              workers, previews, settled, bootVars, fsys, disc, histVars>>

\* a scanner calls _pick_exe_in_folder on a folder
PickCall ==
  /\ phase = "running"
  /\ pick.pc \in {"idle", "returned"}
  /\ \E folder \in Folders, depth_limit \in DepthLimits :
       pick' = [pc |-> "called", folder |-> folder,
                depth_limit |-> depth_limit]
  /\ PickFrame

\* the call returns
PickReturn ==
  /\ pick.pc = "called"
  /\ pick' = [pc |-> "returned", folder |-> pick.folder,
              depth_limit |-> pick.depth_limit,
              exe |-> _pick_exe_in_folder(pick.folder, pick.depth_limit)]
  /\ PickFrame

PickNext == PickCall \/ PickReturn

\* calls of the executable picker, one after the other
SpecPick == Init /\ [][PickNext]_vars

NoMergeUnderWay == \A w \in 1..Len(workers) : workers[w].pc = "done"

SaveWhenIdle == NoMergeUnderWay /\ SaveSelectedGame

AddWhenIdle == NoMergeUnderWay /\ AddGameManually

RescanWhenIdle == NoMergeUnderWay /\ RescanGames

StoreNext ==
  \/ SaveWhenIdle
  \/ AddWhenIdle
  \/ RescanWhenIdle
  \/ \E w \in 1..MaxRescans : WorkerNext(w)

SpecStore == InitStore /\ [][StoreNext]_vars

\* the watcher's tick and the handlers that write to the store, one after
\* another: a handler runs between two ticks and while no merge is under way;
\* of the processes only CS2 starts and stops, and the driver accepts every
\* mode
BetweenTicks == wpc \in {"idle", "OSError", "RuntimeError", "done"}
KeepNext ==
  \/ NoMergeUnderWay /\ TickStart /\ running' \subseteq {"cs2.exe"}
  \/ ScanStep
  \/ ApplyStep /\ lastCall'.drv = [query |-> TRUE, test |-> 0, apply |-> 0]
  \/ BetweenTicks /\ SaveWhenIdle
  \/ BetweenTicks /\ AddWhenIdle
  \/ BetweenTicks /\ RescanWhenIdle
  \/ BetweenTicks /\ NoMergeUnderWay /\ ChooseImage
  \/ \E w \in 1..MaxRescans : WorkerNext(w)
SpecKeep == InitStore /\ [][KeepNext]_vars

\* one run of discover_all_games
DiscoverNext ==
  \/ StartDiscovery
  \/ ScanSteam
  \/ ScanEpic
  \/ ScanRiot
  \/ ScanRegistry
  \/ ScanCustom
  \/ Unique
SpecDiscover == Init /\ [][DiscoverNext]_vars

\* the construction from any document, then the handlers that change the
\* store
LoadNext ==
  \/ Construct
  \/ SaveWhenIdle
  \/ AddWhenIdle
  \/ RescanWhenIdle
  \/ \E w \in 1..MaxRescans : WorkerNext(w)
SpecLoad == InitLoad /\ [][LoadNext]_vars

----------------------------------------------------------------------------
(* test_resolution_7s and its worker threads                               *)

PreviewNext ==
  \/ TestResolution
  \/ \E p \in 1..MaxPreviews : PreviewWorkerNext(p)

SpecPreview == InitPreview /\ [][PreviewNext]_vars

\* the UI thread's handlers that save, and the rescan workers with their
\* save_config step by step
SaveNext ==
  \/ SaveSelectedGame
  \/ AddGameManually
  \/ RescanGames
  \/ \E w \in 1..MaxRescans :
       \/ WDiscover(w)
       \/ WNext(w)
       \/ WBackfill(w)
       \/ WInsert(w)
       \/ WPresetCheck(w)
       \/ WPresetWrite(w)
       \/ WSaveOpen(w)
       \/ WSaveClose(w)

SpecSave == Init /\ [][SaveNext]_vars

\* a driver that accepts every mode
Accepting == [query |-> TRUE, test |-> 0, apply |-> 0]

\* the watcher and the workers of test_resolution_7s on one display, with
\* a driver that accepts every mode and cs2 as the only game that starts
\* and stops
SharedNext ==
  \/ TickStart /\ running' \subseteq {"cs2.exe"}
  \/ ScanStep
  \/ ApplyStep /\ lastCall'.drv = Accepting
  \/ TestResolution
  \/ \E p \in 1..MaxPreviews : PApply(p) /\ lastCall'.drv = Accepting
  \/ \E p \in 1..MaxPreviews : PRevert(p) /\ lastCall'.drv = Accepting

SpecShared == InitPreview /\ [][SharedNext]_vars

----------------------------------------------------------------------------
(* The threads that share the store while the window is open: the watcher, *)
(* add_game_manually on the UI thread, and the rescan workers               *)

Next ==
  \/ TickStart
  \/ ScanStep
  \/ ApplyStep
  \/ AddGameManually
  \/ RescanGames
  \/ \E w \in 1..MaxRescans : WorkerNext(w)

Spec == Init /\ [][Next]_vars

----------------------------------------------------------------------------
(* What the claims speak of                                                *)

\* the watcher finishes a tick (or ends in it) with this step
TickEnds == wpc = "apply" /\ wpc' # "apply"

\* this step makes a set_resolution call
CallMade == lastCall'.n # lastCall.n

\* this step posts an "active profile changed" notification
NotificationPosted == notified'.n # notified.n

\* the calls of the watcher / of on_close in the history
LoopCalls == SelectSeq(applyLog, LAMBDA e : e[1] = "loop")

CloseCalls == SelectSeq(applyLog, LAMBDA e : e[1] = "close")

\* apply(1920, 1080, no forced rate) issued by caller by
BaselineCall(by) == <<by, 1920, 1080, {}>>

\* apply(P.width, P.height, P.refresh) of the watcher for stored profile g:
\* the rate is passed when it is > 0
ProfileApply(g) ==
  <<"loop", g.width, g.height, IF g.refresh_hz > 0 THEN {g.refresh_hz} ELSE {}>>

\* the first profile, in the store's order, whose process is in rs
FirstMatch(rs) ==
  LET hits == {i \in 1..Len(order) : Lower(games[order[i]].process) \in rs}
  IN IF hits = {} THEN None
     ELSE order[CHOOSE i \in hits : \A j \in hits : i <= j]

\* how often the match differs from the tick before (None before the first)
MatchChanges ==
  Cardinality({i \in 1..Len(tickLog) :
     FirstMatch(tickLog[i]) #
       (IF i = 1 THEN None ELSE FirstMatch(tickLog[i - 1]))})

----------------------------------------------------------------------------
(* C1: from the start, when the first three ticks observe {}, {P.process}, *)
(* {} for a tracked profile P, the watcher's apply calls are exactly       *)
(* apply(P.width, P.height, P.refresh) and apply(1920, 1080, no rate); for *)
(* the seeded cs2.exe that is apply(1440, 1080, 144) first.                *)
C1_ScenarioApplies ==
  \A k \in DOMAIN games :
    (/\ tickLog = <<{}, {Lower(games[k].process)}, {}>>
     /\ wpc \in {"idle", "done", "OSError"})
    => /\ LoopCalls = <<ProfileApply(games[k]), BaselineCall("loop")>>
       /\ (k = "cs2.exe" /\ games[k].width = DefaultGames[k].width)
          => LoopCalls[1] = <<"loop", 1440, 1080, {144}>>

C1_Witness ==
  /\ tickLog = <<{}, {"cs2.exe"}, {}>>
  /\ wpc = "idle"
  /\ applyLog = <<<<"loop", 1440, 1080, {144}>>, BaselineCall("loop")>>
  /\ last_applied_process = None

----------------------------------------------------------------------------
(* C2: a tick whose match equals last_applied_process makes no             *)
(* set_resolution call and leaves last_applied_process as it is; so the    *)
(* watcher makes at most one call each time the match changes, however     *)
(* many ticks the same process stays the match.                            *)
C2_IdempotenceGuard ==
  /\ [][(TickEnds /\ proc_key = last_applied_process)
        => /\ ~CallMade
           /\ osMode' = osMode
           /\ applyLog' = applyLog
           /\ last_applied_process' = last_applied_process]_vars
  /\ [](Len(LoopCalls) <= MatchChanges)

C2_Witness ==
  /\ Len(tickLog) = 3
  /\ tickLog[2] = {"cs2.exe"}
  /\ tickLog[3] = {"cs2.exe", "explorer.exe"}
  /\ wpc = "idle"
  /\ last_applied_process = "cs2.exe"
  /\ Len(LoopCalls) = 1

----------------------------------------------------------------------------
(* C3: a tick whose match is a profile key other than                      *)
(* last_applied_process calls apply with that profile's width, height and  *)
(* refresh rate and then sets last_applied_process to the match, whether   *)
(* the apply succeeded or failed.                                          *)
C3_KeySetAfterApply ==
  [][(TickEnds /\ proc_key # None /\ proc_key # last_applied_process)
     => /\ CallMade
        /\ <<lastCall'.by, lastCall'.width, lastCall'.height,
             lastCall'.refresh_hz>> = ProfileApply(games[proc_key])
        /\ last_applied_process' = proc_key]_vars

----------------------------------------------------------------------------
(* C4: a tick that matches no profile makes exactly one                    *)
(* apply(1920, 1080, no rate) and sets last_applied_process to None when a *)
(* profile was applied, and makes no call when none was.                   *)
C4_RevertOnNoMatch ==
  [][(TickEnds /\ proc_key = None)
     => IF last_applied_process # None
        THEN /\ CallMade
             /\ <<lastCall'.by, lastCall'.width, lastCall'.height,
                  lastCall'.refresh_hz>> = BaselineCall("loop")
             /\ last_applied_process' = None
        ELSE ~CallMade /\ last_applied_process' = None]_vars

----------------------------------------------------------------------------
(* C5: on every tick a notification carrying the match is posted if and    *)
(* only if the match differs from active_process, and active_process is    *)
(* then the match.                                                         *)
C5_NotifyIffChanged ==
  [][TickEnds
     => /\ NotificationPosted <=> proc_key # active_process
        /\ NotificationPosted => notified'.key = proc_key
        /\ active_process' = proc_key]_vars

----------------------------------------------------------------------------
(* C6: on_close raises the stop signal and makes exactly one               *)
(* apply(1920, 1080, no rate), whatever the state of the loop and of the   *)
(* display.                                                                *)
C6_CloseAppliesBaselineOnce ==
  /\ phase = "running" => ~stop_event /\ CloseCalls = <<>>
  /\ phase # "running" => stop_event /\ CloseCalls = <<BaselineCall("close")>>

C6_Witness ==
  /\ phase = "closing"
  /\ last_applied_process = None
  /\ lastCall.by = "close"
  /\ applyLog = <<<<"loop", 1440, 1080, {144}>>, BaselineCall("loop"),
                  BaselineCall("close")>>

----------------------------------------------------------------------------
(* C7: no failure of the display query, test or apply step ends the        *)
(* watcher loop.                                                           *)
C7_LoopSurvivesDisplayFailures ==
  wpc # "OSError"

----------------------------------------------------------------------------
(* C8: mutations of the profile store are mutually exclusive and a merge   *)
(* of discovery results is atomic with respect to them: while a rescan     *)
(* worker is between the first and the last step of its merge, no handler  *)
(* of another thread changes the store.                                    *)
C8_MergeAtomic ==
  [][(\E w \in 1..Len(workers) :
        workers[w].pc \in {"next", "backfill", "insert", "preset",
                           "preset write", "save"})
     => (manuals' # manuals => games' = games)]_vars

----------------------------------------------------------------------------
(* C9: the watcher's scan of the store never meets an insert of a merge or *)
(* of a manual add, so that no concurrent rescan or manual add makes a     *)
(* tick fail or ends the watcher loop.                                     *)
C9_ScanSurvivesInserts ==
  /\ wpc = "scan" => Len(order) = it_size
  /\ wpc # "RuntimeError"

----------------------------------------------------------------------------
(* C10: two-phase apply. When the test call returns a non-zero status,     *)
(* set_resolution returns failure with that status, never makes the        *)
(* apply-and-persist call and leaves the display mode as it is; when the   *)
(* test passes and the apply-and-persist call returns non-zero, it returns *)
(* failure with that status; otherwise it returns success and the display  *)
(* has the requested width and height, and the requested rate when one     *)
(* was forced.                                                             *)
C10_TwoPhaseApply ==
  [][CallMade /\ Len(lastCall'.native) >= 2
     => LET c == lastCall' IN
        IF c.drv.test # 0
        THEN /\ ~c.ok /\ ~c.raised
             /\ c.msg = <<"nicht testen", c.drv.test>>
             /\ c.native = <<"query", "test">>
             /\ osMode' = osMode
        ELSE IF c.drv.apply # 0
        THEN /\ ~c.ok /\ ~c.raised
             /\ c.msg = <<"nicht setzen", c.drv.apply>>
             /\ c.native = <<"query", "test", "apply">>
        ELSE /\ c.ok /\ ~c.raised
             /\ c.native = <<"query", "test", "apply">>
             /\ osMode'.width = c.width /\ osMode'.height = c.height
             /\ osMode'.freq = IF c.refresh_hz = {} THEN osMode.freq
                               ELSE CHOOSE r \in c.refresh_hz : TRUE]_vars

C10_Witness ==
  /\ lastCall.by = "loop"
  /\ lastCall.width = 1440
  /\ ~lastCall.ok
  /\ lastCall.msg = <<"nicht testen", 0 - 2>>
  /\ lastCall.native = <<"query", "test">>
  /\ osMode = StartMode

----------------------------------------------------------------------------
\* the driver accepts the mode: the query, the test and the apply succeed
Accepts == [query |-> TRUE, test |-> 0, apply |-> 0]

\* widths, heights and rate arguments set_resolution is tried with
TriedWidths == {1440, 1600, 1920}

TriedHeights == {900, 1080}

TriedRates == {{}, {0}, {60}, {144}}

\* the arguments of a recorded call
CallArgs(c) == <<c.width, c.height, c.refresh_hz>>

(* C11: set_resolution is idempotent. From any display mode, for widths,   *)
(* heights > 0 and rates >= 0 (or none) the driver accepts, two calls in a *)
(* row with the same arguments both return success and the display mode    *)
(* after the second equals the mode after the first; and whenever the      *)
(* program makes a call with the arguments of the successful call before   *)
(* it and the driver accepts, it succeeds and the mode does not change.    *)
C11_ApplyIdempotent ==
  /\ [](\A w \in TriedWidths, h \in TriedHeights, r \in TriedRates :
         LET first == set_resolution(osMode, w, h, r, Accepts)
             second == set_resolution(first.mode, w, h, r, Accepts)
         IN first.ok /\ second.ok /\ second.mode = first.mode)
  /\ [][(/\ CallMade
         /\ lastCall.ok
         /\ CallArgs(lastCall') = CallArgs(lastCall)
         /\ lastCall'.drv = Accepts)
        => lastCall'.ok /\ osMode' = osMode]_vars

C11_Witness ==
  /\ Len(previews) = 2
  /\ previews[1] = [pc |-> "sleep", w |-> 1920, h |-> 900, r |-> 60]
  /\ previews[2] = previews[1]
  /\ lastCall.ok
  /\ CallArgs(lastCall) = <<1920, 900, {60}>>
  /\ osMode = [width |-> 1920, height |-> 900, freq |-> 60]

----------------------------------------------------------------------------
\* the rate argument a caller passes for a stored or typed rate r
PassedRate(r) == IF r > 0 THEN {r} ELSE {}

(* C12: the mode set_resolution requests has the given width and height    *)
(* always, and the given rate exactly when one > 0 is supplied; with no    *)
(* rate or a rate of 0 it keeps the current rate. A successful call leaves *)
(* the display in that mode. The watcher and the test preview pass a       *)
(* profile's or the typed rate only when it is > 0, and the preview's      *)
(* revert to the baseline passes no rate.                                  *)
C12_RefreshOverride ==
  /\ [](\A w \in TriedWidths, h \in TriedHeights, r \in TriedRates :
         RequestedMode(osMode, w, h, r) =
           [width |-> w, height |-> h,
            freq |-> IF r \in {{60}, {144}} THEN CHOOSE x \in r : TRUE
                     ELSE osMode.freq])
  /\ [](\A k \in DOMAIN games :
         ProfileCall(games[k]) =
           [width |-> games[k].width, height |-> games[k].height,
            refresh_hz |-> PassedRate(games[k].refresh_hz)])
  /\ [][CallMade
        => /\ lastCall'.ok
              => osMode' = [width |-> lastCall'.width,
                            height |-> lastCall'.height,
                            freq |-> IF lastCall'.refresh_hz = {}
                                     THEN osMode.freq
                                     ELSE CHOOSE x \in lastCall'.refresh_hz :
                                            TRUE]
           /\ lastCall'.by = "test"
              => \E p \in 1..Len(previews) :
                   /\ previews[p].pc = "apply" /\ previews'[p].pc # "apply"
                   /\ CallArgs(lastCall') =
                        <<previews[p].w, previews[p].h,
                          PassedRate(previews[p].r)>>
           /\ lastCall'.by = "test revert"
              => CallArgs(lastCall') = <<1920, 1080, {}>>]_vars

C12_Witness ==
  /\ Len(previews) = 1
  /\ previews[1] = [pc |-> "sleep", w |-> 1920, h |-> 900, r |-> 0]
  /\ lastCall.by = "test"
  /\ lastCall.refresh_hz = {}
  /\ osMode = [width |-> 1920, height |-> 900, freq |-> 60]

----------------------------------------------------------------------------
(* C13: a tick whose process enumeration failed sees the empty set and     *)
(* matches nothing, and the failure costs at most a delay: the tick leaves *)
(* the display mode as it is and the watcher goes on to its next tick.     *)
C13_EnumerationFailureHarmless ==
  [][(TickEnds /\ enum_failed)
     => /\ proc_key = None
        /\ osMode' = osMode
        /\ wpc' = "idle"]_vars

----------------------------------------------------------------------------
(* C14: the scan of a tick selects as the match the first profile, in the  *)
(* store's iteration order, whose lowercased process name is in the        *)
(* running set the tick observed (None when there is none); when the       *)
(* processes of two profiles run, that is one winner, and it is a function *)
(* of the store and the running set.                                       *)
C14_FirstMatchWins ==
  wpc = "apply" => proc_key = FirstMatch(tickLog[Len(tickLog)])

C14_Witness ==
  /\ wpc = "apply"
  /\ order = <<"cs2.exe", "valorant-win64-shipping.exe">>
  /\ tickLog[Len(tickLog)] = {"cs2.exe", "valorant-win64-shipping.exe"}
  /\ proc_key = "cs2.exe"

----------------------------------------------------------------------------
\* this step is a step of the merge of rescan worker w
MergeStep(w) ==
  /\ w \in 1..Len(workers)
  /\ Len(workers') = Len(workers)
  /\ workers'[w] # workers[w]

\* the keys of the candidates worker w merges
CandidateKeys(w) ==
  {CandKey(workers'[w].discovered[i]) : i \in 1..Len(workers'[w].discovered)}

\* the candidate keys the store already held when the merge of w began
Rediscovered(w) == CandidateKeys(w) \cap (DOMAIN games \ workers[w].fresh)

\* exe_path and source change only from empty
OnlyBackfilled(p, q) ==
  /\ q.exe_path = p.exe_path \/ ~Truthy(p.exe_path)
  /\ q.source = p.source \/ ~Truthy(p.source)

(* C15: a merge leaves, for every discovered candidate whose key the store *)
(* already holds, the profile's name, width, height, refresh rate and      *)
(* image path as they are, and changes exe_path and source only when they  *)
(* are empty.                                                              *)
C15_MergeNonDestructive ==
  [][\A w \in 1..Len(workers) :
       MergeStep(w)
       => \A k \in Rediscovered(w) :
            /\ games'[k].name = games[k].name
            /\ games'[k].width = games[k].width
            /\ games'[k].height = games[k].height
            /\ games'[k].refresh_hz = games[k].refresh_hz
            /\ games'[k].image_path = games[k].image_path
            /\ OnlyBackfilled(games[k], games'[k])]_vars

\* C15 as the code has it: the same, except that the width and height of a
\* preset whose resolution is the baseline pair (or unset) are forced to
\* the preset's resolution, and that a preset without a name gets its name
C15_MergePreservesButSeeds ==
  [][\A w \in 1..Len(workers) :
       MergeStep(w)
       => \A k \in Rediscovered(w) :
            /\ games'[k].name = games[k].name \/ games[k].name = Missing
            /\ games'[k].refresh_hz = games[k].refresh_hz
            /\ games'[k].image_path = games[k].image_path
            /\ OnlyBackfilled(games[k], games'[k])
            /\ \/ /\ games'[k].width = games[k].width
                  /\ games'[k].height = games[k].height
               \/ \E n \in 1..Len(Presets) :
                    /\ Presets[n].key = k
                    /\ games[k].width \in {NoInt, 1920}
                    /\ games[k].height \in {NoInt, 1080}
                    /\ games'[k].width = Presets[n].width
                    /\ games'[k].height = 1080]_vars

C15_Witness ==
  /\ Len(workers) = 1
  /\ workers[1].pc = "done"
  /\ workers[1].discovered = <<CandCs2>>
  /\ games["cs2.exe"].width = 1600
  /\ games["cs2.exe"].height = 900
  /\ games["cs2.exe"].exe_path = "C:/Steam/cs2.exe"
  /\ games["cs2.exe"].source = "preset"

----------------------------------------------------------------------------
(* C16: a merge changes the width or height of a profile only for the two  *)
(* presets, only when the preset's resolution is the baseline pair         *)
(* 1920x1080, to 1440x1080 for cs2.exe and 1568x1080 for                   *)
(* valorant-win64-shipping.exe, and only once: never after the forcing has *)
(* taken effect or the user has saved a resolution for the preset.         *)
C16_PresetSeedOnce ==
  [][\A w \in 1..Len(workers) :
       MergeStep(w)
       => \A k \in DOMAIN games :
            (games'[k].width # games[k].width
               \/ games'[k].height # games[k].height)
            => /\ k \notin settled
               /\ games[k].width \in {NoInt, 1920}
               /\ games[k].height \in {NoInt, 1080}
               /\ \/ k = "cs2.exe" /\ games'[k].width = 1440
                  \/ k = "valorant-win64-shipping.exe"
                     /\ games'[k].width = 1568
               /\ games'[k].height = 1080]_vars

----------------------------------------------------------------------------
(* C17: for every discovered candidate whose key the store does not hold,  *)
(* the merge inserts one profile under the lowercased process name, with   *)
(* 1920x1080 at 144 Hz, the candidate's name, process, exe_path and source *)
(* and the image path images/<safe file name of the key>.png; no other     *)
(* step of the merge adds a key, and added counts the keys inserted.       *)
C17_InsertDefaults ==
  /\ [][\A w \in 1..Len(workers) :
          MergeStep(w)
          => IF DOMAIN games' # DOMAIN games
             THEN LET g == Cand(w)
                      k == Lower(g.process)
                  IN /\ k \notin DOMAIN games
                     /\ DOMAIN games' = DOMAIN games \cup {k}
                     /\ order' = Append(order, k)
                     /\ games'[k] =
                          [name |-> g.name, process |-> g.process,
                           width |-> 1920, height |-> 1080, refresh_hz |-> 144,
                           image_path |-> <<"images", _safe_filename(k), ".png">>,
                           exe_path |-> g.exe_path, source |-> g.source]
                     /\ \A j \in DOMAIN games : games'[j] = games[j]
                     /\ workers'[w].added = workers[w].added + 1
             ELSE workers'[w].added = workers[w].added]_vars
  /\ [](\A w \in 1..Len(workers) :
         /\ workers[w].added = Cardinality(workers[w].fresh)
         /\ workers[w].pc \in {"preset", "preset write", "save", "done"}
            => \A i \in 1..Len(workers[w].discovered) :
                 CandKey(workers[w].discovered[i]) \in DOMAIN games)

C17_Witness ==
  /\ Len(workers) = 1
  /\ workers[1].pc = "done"
  /\ workers[1].discovered = <<CandCs2, CandMyGame>>
  /\ workers[1].added = 1
  /\ order = <<"cs2.exe", "valorant-win64-shipping.exe", "my game.exe">>
  /\ games["my game.exe"].source = "epic"
  /\ games["my game.exe"].image_path = <<"images", "my_game.exe", ".png">>

----------------------------------------------------------------------------
\* this step is a call of save_selected_game
EditStep == edits' # edits

(* C18: a save_selected_game with a width or height that is not a number   *)
(* > 0, or a refresh rate that is not a number >= 0, changes no profile,   *)
(* adds no profile, persists nothing and reports the error; one that       *)
(* succeeds stores a width > 0, a height > 0 and a rate >= 0.              *)
C18_InvalidEditRejected ==
  [][EditStep
     => /\ status' \in {"invalid", "Gespeichert."}
        /\ status' = "invalid"
           => games' = games /\ order' = order /\ saved' = saved
        /\ status' = "Gespeichert."
           => \A k \in DOMAIN games' :
                (k \notin DOMAIN games \/ games'[k] # games[k])
                => /\ games'[k].width > 0
                   /\ games'[k].height > 0
                   /\ games'[k].refresh_hz >= 0]_vars

----------------------------------------------------------------------------
(* C19: load_config of a missing or unparseable config.json returns        *)
(* exactly the seeded default (cs2.exe at 1440x1080@144,                   *)
(* valorant-win64-shipping.exe at 1568x1080@144, no custom scan paths),    *)
(* and has written that default to the file when it returns.               *)
C19_DefaultOnMissingOrCorrupt ==
  (boot.done /\ document.kind \in {"missing", "corrupt"})
  => /\ boot.cfg.fields = {"custom_scan_paths", "games"}
     /\ boot.cfg.paths = <<>>
     /\ DOMAIN boot.cfg.games = {"cs2.exe", "valorant-win64-shipping.exe"}
     /\ boot.cfg.order = <<"cs2.exe", "valorant-win64-shipping.exe">>
     /\ boot.cfg.games = DefaultGames
     /\ LET cs2 == boot.cfg.games["cs2.exe"]
            val == boot.cfg.games["valorant-win64-shipping.exe"]
        IN /\ <<cs2.width, cs2.height, cs2.refresh_hz>> = <<1440, 1080, 144>>
           /\ <<val.width, val.height, val.refresh_hz>> = <<1568, 1080, 144>>
     /\ boot.written = boot.cfg

C19_Witness ==
  /\ boot.done
  /\ document.kind = "corrupt"
  /\ phase = "running"
  /\ games = DefaultGames
  /\ saved.games = DefaultGames

----------------------------------------------------------------------------
(* C20: load_config of a config.json that parses but lacks                 *)
(* custom_scan_paths or games returns the seeded default and has written   *)
(* it to the file.                                                         *)
C20_ResetOnEitherFieldMissing ==
  (boot.done /\ document.kind = "json"
     /\ document.fields # {"custom_scan_paths", "games"})
  => boot.cfg = default_config /\ boot.written = default_config

\* C20 as the code has it: without games the whole configuration is the
\* seeded default; with games and without custom_scan_paths the games are
\* kept as they are and the scan paths are empty; both are written
C20_ResetOnlyWithoutGames ==
  (boot.done /\ document.kind = "json"
     /\ document.fields # {"custom_scan_paths", "games"})
  => /\ boot.written = boot.cfg
     /\ boot.cfg.fields = {"custom_scan_paths", "games"}
     /\ IF "games" \notin document.fields
        THEN boot.cfg = default_config
        ELSE /\ boot.cfg.games = document.games
             /\ boot.cfg.order = document.order
             /\ boot.cfg.paths = <<>>

C20_Witness ==
  /\ boot.done
  /\ document.kind = "json"
  /\ document.fields = {"games"}
  /\ "cs2.exe" \in DOMAIN boot.cfg.games
  /\ "cs2.exe" \in DOMAIN games
  /\ boot.cfg.games["cs2.exe"].width = 1600
  /\ games["cs2.exe"].width = 1600
  /\ boot.written.paths = <<>>

----------------------------------------------------------------------------
\* self.cfg of the running program
CurrentConfig ==
  [fields |-> boot.cfg.fields, paths |-> boot.cfg.paths, games |-> games,
   order |-> order]

\* load_config() of the file save_config(cfg) wrote
Reloaded(cfg) == load_config(json_load(save_config(cfg)))

(* C21: for every configuration the program holds (both top-level fields   *)
(* present), load_config of the document save_config wrote returns an      *)
(* equal configuration, and saving that again writes the same document;    *)
(* the document load_config itself re-saves is the same one too.           *)
C21_RoundTrip ==
  boot.done
  => /\ CurrentConfig.fields = {"custom_scan_paths", "games"}
     /\ Reloaded(CurrentConfig).cfg = CurrentConfig
     /\ save_config(Reloaded(CurrentConfig).cfg) = save_config(CurrentConfig)
     /\ save_config(Reloaded(CurrentConfig).written)
          = save_config(CurrentConfig)

C21_Witness ==
  /\ boot.done
  /\ manuals = 1
  /\ edits = 1
  /\ boot.cfg.paths = <<"D:/Games">>
  /\ order = <<"cs2.exe", "valorant-win64-shipping.exe", "my game.exe">>
  /\ games["cs2.exe"].exe_path = None
  /\ games["cs2.exe"].width = 1920
  /\ Len(save_config(CurrentConfig).games[1].members) = 8
  /\ Reloaded(CurrentConfig).cfg.games = games

----------------------------------------------------------------------------
(* C22: once load_config and the startup merge have run, whatever          *)
(* parseable document was persisted, the store is not empty and holds the  *)
(* two built-in presets.                                                   *)
C22_StoreHoldsPresets ==
  (boot.done /\ document.kind = "json")
  => /\ DOMAIN games # {}
     /\ {"cs2.exe", "valorant-win64-shipping.exe"} \subseteq DOMAIN games

----------------------------------------------------------------------------
(* C23: in every state of the store after load, merge, manual add and user *)
(* edit, every key is lowercase and is the lowercased process name of its  *)
(* profile, and no two keys are the same name up to case.                  *)
C23_KeysAreLowercaseProcess ==
  boot.done
  => /\ \A k \in DOMAIN games :
          /\ k = Lower(k)
          /\ games[k].process # Missing => k = Lower(games[k].process)
     /\ \A k1, k2 \in DOMAIN games : Lower(k1) = Lower(k2) => k1 = k2

----------------------------------------------------------------------------
(* C24: no step of a merge, a rescan, a manual addition, a user edit, an   *)
(* image change or a tick of the loop removes a key from the store: the    *)
(* key set only grows, and the keys keep their order.                      *)
C24_KeysOnlyGrow ==
  [][/\ DOMAIN games \subseteq DOMAIN games'
     /\ Len(order') >= Len(order)
     /\ SubSeq(order', 1, Len(order)) = order]_vars

C24_Witness ==
  /\ edits = 1
  /\ manuals = 1
  /\ Len(workers) = 1
  /\ workers[1].pc = "done"
  /\ workers[1].added = 1
  /\ wpc = "idle"
  /\ last_applied_process = "cs2.exe"
  /\ order = <<"valorant-win64-shipping.exe", "cs2.exe", "my game.exe">>
  /\ games["cs2.exe"].image_path = <<"images", "cs2.exe", ".jpg">>

----------------------------------------------------------------------------
(* C25: discover_all_games never raises: whatever the scanners encounter   *)
(* (an unreadable directory, a manifest that is not valid JSON, a manifest *)
(* whose JSON is not an object or whose fields are not strings, a missing  *)
(* registry), the run goes on to return a list.                            *)
C25_DiscoveryNeverRaises ==
  disc.pc \in {"idle", "steam", "epic", "riot", "registry", "custom", "uniq",
               "done"}

----------------------------------------------------------------------------
\* the lowercased process names of the candidates of a list
KeysOf(q) == {Lower(q[i].process) : i \in 1..Len(q)}

\* the place of the first candidate with key k among all the run found
FirstAt(k) ==
  CHOOSE j \in 1..Len(disc.found) :
    /\ Lower(disc.found[j].process) = k
    /\ \A i \in 1..(j - 1) : Lower(disc.found[i].process) # k

(* C28: the list a discovery run returns holds at most one candidate per   *)
(* lowercased process name, none with an empty process name, and the one   *)
(* kept for a key is the first with that key in the order steam, epic,     *)
(* riot, registry, custom of the scanners.                                 *)
C28_FirstPerKeyInScannerOrder ==
  disc.pc = "done"
  => /\ disc.found = disc.per["steam"] \o disc.per["epic"] \o disc.per["riot"]
                       \o disc.per["registry"] \o disc.per["custom"]
     /\ \A i \in 1..Len(disc.per["steam"]) :
          disc.per["steam"][i].source = "steam"
     /\ \A i \in 1..Len(disc.per["epic"]) :
          disc.per["epic"][i].source = "epic"
     /\ \A i \in 1..Len(disc.per["riot"]) :
          disc.per["riot"][i].source = "riot"
     /\ \A i \in 1..Len(disc.per["registry"]) :
          disc.per["registry"][i].source
            \in {"ubisoft", "battlenet", "riot", "registry"}
     /\ \A i \in 1..Len(disc.per["custom"]) :
          disc.per["custom"][i].source = "custom"
     /\ \A i, j \in 1..Len(disc.uniq) :
          Lower(disc.uniq[i].process) = Lower(disc.uniq[j].process) => i = j
     /\ \A i \in 1..Len(disc.uniq) :
          /\ disc.uniq[i].process # ""
          /\ disc.uniq[i] = disc.found[FirstAt(Lower(disc.uniq[i].process))]
     /\ \A i, j \in 1..Len(disc.uniq) :
          i < j => FirstAt(Lower(disc.uniq[i].process))
                     < FirstAt(Lower(disc.uniq[j].process))

C28_Witness ==
  /\ disc.pc = "done"
  /\ Len(disc.per["steam"]) = 1
  /\ Len(disc.per["epic"]) = 1
  /\ disc.per["epic"][1].process = "CS2.exe"
  /\ Len(disc.per["custom"]) = 1
  /\ Len(disc.uniq) = 2
  /\ disc.uniq[1].exe_path = "C:/Steam/cs2.exe"
  /\ disc.uniq[1].source = "steam"
  /\ disc.uniq[2].process = "bn.exe"

----------------------------------------------------------------------------
----------------------------------------------------------------------------
\* the lowercased words of the name and the publisher of an entry
WordsOf(e) ==
  {Lower(e.name[i]) : i \in 1..Len(e.name)}
    \cup {Lower(e.publisher[i]) : i \in 1..Len(e.publisher)}

\* the entries the keyword filter keeps
KeptByFilter(e) ==
  WordsOf(e) \cap {"ubisoft", "blizzard", "battle.net", "riot", "valorant"}
    # {}

\* the origin by the priority ubisoft, battlenet, riot, generic registry
OriginByPriority(e) ==
  IF "ubisoft" \in WordsOf(e) THEN "ubisoft"
  ELSE IF WordsOf(e) \cap {"battle.net", "blizzard"} # {} THEN "battlenet"
  ELSE IF "riot" \in WordsOf(e) THEN "riot"
  ELSE "registry"

\* a registry text without its quotes and blanks, cut after its last
\* ".exe": the path, when it is that of an existing .exe file
Cleaned(t) ==
  LET bare == SelectSeq(t, LAMBDA x : x \notin {"\"", " "})
      ends == {i \in 1..Len(bare) : bare[i] \in {".exe", ".EXE"}}
      path == IF ends = {} THEN ""
              ELSE Join(SubSeq(bare, 1,
                               CHOOSE i \in ends : \A j \in ends : j <= i))
  IN IF path \in InstalledFiles THEN path ELSE None

\* the registry scanner has returned
RegistryScanned == disc.pc \in {"custom", "uniq", "done"}

\* the entries that yield the candidates of the registry scanner, when
\* those are the kept entries for which has(e) holds
Yielding(has(_)) ==
  LET all == SelectSeq(fsys.registry, LAMBDA e : KeptByFilter(e) /\ has(e))
  IN SubSeq(all, 1, IF Len(all) < ScanLimit THEN Len(all) ELSE ScanLimit)

HasText(e) ==
  Cleaned(e.display_icon) # None \/ Cleaned(e.uninstall_string) # None
HasAny(e) == HasText(e) \/ e.picked # None

(* C30: every registry entry the keyword filter keeps yields a candidate   *)
(* whose origin is ubisoft, else battlenet, else riot, else registry, by   *)
(* the keyword that matched, and whose executable path is the icon path or *)
(* the uninstall string without a trailing ",<digit>" and without anything *)
(* after ".exe": "Ubisoft Connect" with the icon path "C:/Games/u.exe,0"   *)
(* yields C:/Games/u.exe with origin ubisoft.                              *)
C30_RegistryOriginAndPath ==
  RegistryScanned
  => /\ Len(disc.per["registry"]) = Len(Yielding(HasAny))
     /\ \A i \in 1..Len(disc.per["registry"]) :
          LET c == disc.per["registry"][i]
              e == Yielding(HasAny)[i]
          IN /\ c.source = OriginByPriority(e)
             /\ c.exe_path \in {Cleaned(e.display_icon),
                                 Cleaned(e.uninstall_string)} \ {None}

\* C30 as the code has it: the path is the cleaned icon path, else the
\* cleaned uninstall string, else the executable picked in the install
\* location; an entry for which none of the three is found is dropped
C30_RegistryOriginAndPathOrPicked ==
  RegistryScanned
  => /\ Len(disc.per["registry"]) = Len(Yielding(HasAny))
     /\ \A i \in 1..Len(disc.per["registry"]) :
          LET c == disc.per["registry"][i]
              e == Yielding(HasAny)[i]
          IN /\ c.source = OriginByPriority(e)
             /\ c.process = Basename(c.exe_path)
             /\ c.exe_path =
                  IF Cleaned(e.display_icon) # None
                  THEN Cleaned(e.display_icon)
                  ELSE IF Cleaned(e.uninstall_string) # None
                  THEN Cleaned(e.uninstall_string)
                  ELSE e.picked

C30_Witness ==
  /\ disc.pc = "done"
  /\ fsys.registry = <<UbisoftConnect>>
  /\ Len(disc.per["registry"]) = 1
  /\ disc.per["registry"][1].name = "Ubisoft Connect"
  /\ disc.per["registry"][1].exe_path = "C:/Games/u.exe"
  /\ disc.per["registry"][1].source = "ubisoft"

----------------------------------------------------------------------------
(* A failed apply of the loop                                              *)

\* the watcher has just made a set_resolution call that returned a failure
\* status, of the test phase or of the apply phase
LoopCallFailed ==
  /\ lastCall'.n # lastCall.n
  /\ lastCall'.by = "loop"
  /\ ~lastCall'.raised
  /\ ~lastCall'.ok

\* C26: when an apply issued by the loop fails, at the test phase or at the
\* apply phase, the log carries the failure with the OS status code, and
\* neither line of a successful switch
C26_LoopFailureReported ==
  [][LoopCallFailed =>
       /\ logged'.msg = lastCall'.msg
       /\ logged'.msg[2] \in {lastCall'.drv.test, lastCall'.drv.apply} \ {0}
       /\ logged'.line \notin {"Aktiv erkannt", "Kein Spiel aktiv"}]_vars

----------------------------------------------------------------------------
(* Shutdown of the loop                                                    *)

\* the watcher thread runs no more: its loop has ended, an exception has
\* ended it, or the process has exited
WatcherEnded ==
  \/ wpc \in {"done", "OSError", "RuntimeError"}
  \/ phase = "exited"

\* the watcher passes the head of its loop into a new tick
NewTick == wpc = "idle" /\ wpc' \notin {"idle", "done"}

\* C27: the stop signal stays raised; once it is raised the watcher starts
\* no new tick, and after the tick under way, if any, it has ended
C27_CooperativeCancellation ==
  /\ [][stop_event => stop_event' /\ ~NewTick]_vars
  /\ stop_event ~> WatcherEnded

\* the signal was raised during a tick, and the watcher finished the tick
\* by applying the profile, and ended
C27_Witness ==
  /\ stop_event
  /\ wpc = "done"
  /\ last_applied_process = "cs2.exe"

----------------------------------------------------------------------------
(* The executable picker                                                   *)

\* the folder of the call under way holds, d directories down, a .exe
ExeAtDepth(d) ==
  \E i \in 1..Len(pick.folder.walk) :
    /\ Len(pick.folder.walk[i].rel) = d
    /\ FirstExe(pick.folder.walk[i].files) # 0

\* the call under way is on a directory
PickedInDirectory ==
  /\ pick.pc = "returned"
  /\ pick.folder.text # <<>>
  /\ pick.folder.isdir

\* the folder whose only executable is sub/deep/deep2/game.exe
OnlyDeepExe ==
  /\ PickedInDirectory
  /\ \A d \in 0..4 : ExeAtDepth(d) <=> d = 3

\* C31: an executable directly inside the folder is returned before any
\* nested one; otherwise the executable returned lies no deeper than the
\* depth limit; a folder whose only executable is sub/deep/deep2/game.exe
\* yields none with limit 2 and that path with limit 3
C31_PickWithinDepthLimit ==
  PickedInDirectory =>
    /\ ExeAtDepth(0) => pick.exe # None /\ pick.exe[1] = <<>>
    /\ pick.exe # None =>
         /\ Len(pick.exe[1]) <= pick.depth_limit
         /\ EndsWithExe(pick.exe[2])
    /\ OnlyDeepExe /\ pick.depth_limit = 2 => pick.exe = None
    /\ OnlyDeepExe /\ pick.depth_limit = 3 =>
         pick.exe = <<(<<"sub", "deep", "deep2">>), GameExe>>

----------------------------------------------------------------------------
(* The display after on_close                                              *)

\* a set_resolution call is made for a mode other than the baseline
OtherModeCalled ==
  /\ lastCall'.n # lastCall.n
  /\ <<lastCall'.width, lastCall'.height, lastCall'.refresh_hz>> #
       <<DEFAULT_WIDTH, DEFAULT_HEIGHT, NoRate>>

\* C32: once on_close has applied the baseline, no thread applies a game
\* profile or a test mode
C32_BaselineIsLastChange ==
  [][(phase \in {"closing", "exited"}) => ~OtherModeCalled]_vars

----------------------------------------------------------------------------
(* The preview and the loop on one display                                 *)

\* the loop holds profile k as applied
HeldApplied(k) ==
  /\ k \in DOMAIN games
  /\ last_applied_process = k

\* the display is in the mode of profile k
ShowsProfile(k) ==
  /\ osMode.width = ProfileCall(games[k]).width
  /\ osMode.height = ProfileCall(games[k]).height

\* no test mode is on the display for its timed window
NoPreviewWindow == \A p \in 1..Len(previews) : previews[p].pc # "sleep"

\* C33: while the loop holds a game's profile as applied, the display is
\* in that profile's mode outside the timed window of a preview: the
\* revert that ends the window does not leave the display at the baseline
C33_PreviewKeepsAppliedProfile ==
  \A k \in DOMAIN games :
    NoPreviewWindow /\ HeldApplied(k) => ShowsProfile(k)

----------------------------------------------------------------------------
(* Liveness of the loop                                                    *)

\* every tick that gets to _apply_game_resolution_if_needed has match k
\* (None: no tracked process runs)
TicksMatch(k) == wpc = "apply" => proc_key = k

\* C34: without shutdown, if from some point on every tick matches
\* profile k, the loop comes to hold k as applied, and if from some point
\* on no tick matches a profile, the loop comes to hold none as applied
C34_LoopFollowsMatch ==
  /\ \A k \in DOMAIN DefaultGames :
       ([]~stop_event /\ <>[]TicksMatch(k))
         => <>[](last_applied_process = k)
  /\ ([]~stop_event /\ <>[]TicksMatch(None))
       => <>[](last_applied_process = None)

----------------------------------------------------------------------------
(* Durability                                                              *)

\* C35: when no merge is under way and no handler runs, the persisted
\* document is the in-memory store, whatever the interleaving of the
\* worker's save with the saves of the UI thread was
C35_PersistedEqualsStore ==
  NoMergeUnderWay => saved = [games |-> games, order |-> order]

----------------------------------------------------------------------------
(* An edit of the applied profile                                          *)

\* the watcher makes a set_resolution call in this step
LoopCalled == lastCall'.n # lastCall.n /\ lastCall'.by = "loop"

\* C36: a step that edits the store makes no set_resolution call; the
\* loop calls only on a tick whose match differs from the key it holds as
\* applied, and then with the values the matched profile has at that time
C36_EditWaitsForKeyChange ==
  [][/\ games' # games => lastCall' = lastCall /\ osMode' = osMode
     /\ LoopCalled =>
          /\ proc_key # last_applied_process
          /\ proc_key \in DOMAIN games =>
               /\ lastCall'.width = ProfileCall(games[proc_key]).width
               /\ lastCall'.height = ProfileCall(games[proc_key]).height
               /\ lastCall'.refresh_hz =
                    ProfileCall(games[proc_key]).refresh_hz]_vars

\* the applied profile was edited to another width than the display has,
\* and a tick that matches it again is about to pass the guard
C36_Witness ==
  /\ wpc = "apply"
  /\ proc_key = "cs2.exe"
  /\ last_applied_process = "cs2.exe"
  /\ lastCall.by = "loop"
  /\ lastCall.ok
  /\ edits > 0
  /\ "cs2.exe" \in settled
  /\ osMode.width # ProfileCall(games["cs2.exe"]).width

====
